---- MODULE Spec2Model ----
(***************************************************************************)
(* pical: the iCal ingestion core (src/app/data/cal.rs).                   *)
(*                                                                         *)
(* parse_ical walks the calendar blocks of the structural parser, turns    *)
(* every event component into a seed Event plus the occurrences of its     *)
(* recurrence rule, cuts each stream at the caller's horizon and sorts the *)
(* lot by start.  The model follows the code one iterator pull at a time.  *)
(*                                                                         *)
(* Representation.  A Date is the number of days since 2000-01-01; an      *)
(* OffsetDateTime is a record [date, tod, off] holding the LOCAL calendar  *)
(* date, the local second of the day and the UTC offset in seconds, as the *)
(* time crate stores it.  Ordering and equality of OffsetDateTime are by   *)
(* instant (Instant), the accessors date()/day()/year() are local.         *)
(***************************************************************************)
EXTENDS Integers, Sequences, FiniteSets, TLC

VARIABLES
    data,      \* parse_ical argument: the calendar blocks the parser yields
    offset,    \* parse_ical argument: the target UtcOffset (seconds)
    limit,     \* parse_ical argument: the horizon (OffsetDateTime)
    pc,        \* position in parse_ical
    bi,        \* number of calendar blocks pulled from the parser
    ci,        \* number of components of the current block handed to make_event
    gen,       \* the live make_event iterator: [next, rrule]
    item,      \* what Successors::next handed to take_while, if anything
    evs,       \* the Vec<Event> being collected, then sorted
    origin,    \* for each element of evs, <<block, component, occurrence index>>
    cev,       \* Event::covers receiver
    cdate,     \* Event::covers argument
    cres,      \* Event::covers result
    dprop,     \* PropParser::datetime: the property looked at
    dres,      \* PropParser::datetime: what it returned
    cals,      \* Month::render: model.cals.values(), a Calendar each
    layout_now,\* Month::render: layout.now.date()
    month_evs, \* Month::render: the flattened Vec<&Event>, sorted by start
    month_slice,\* Month::render: the slice evs of that Vec still looked at
    month_day, \* Month::render: the next day of the grid, if any is left
    cell,      \* the last cell drawn: [day, evs], evs the event lines shown
    mpc,       \* position in Month::render
    state,     \* recv_loop: the state T the dispatcher owns
    chan,      \* the mpsc channel of Dispatch: closures sent, not yet received
    run_pc,    \* per task: where its call of Dispatch::run stands
    oneshot,   \* per task: the value sent on the oneshot channel of its call
    run_out,   \* per task: what its last call of run returned
    entered,   \* history: the closures in the order they entered the channel
    applied,   \* history: the closures recv_loop has run, with state before and after
    shared,    \* State of main: model and layout, as the dispatcher holds it
    clock,     \* Instant::now(), in seconds
    deadline,  \* fetch_loop: when its timer ticks next
    fpc,       \* position in fetch_loop / fetch_iteration
    fci,       \* fetch_iteration: calendars downloaded so far
    snap,      \* fetch_iteration: its locals model and now
    fcals,     \* fetch_iteration: its local cals
    fweather,  \* fetch_iteration: its local weather
    fmoon,     \* fetch_iteration: its local moon
    fres,      \* what the last fetch_iteration returned
    fiter,     \* iterations begun
    model0,    \* history: the shared model when the iteration began
    wreq,      \* history: the instants of the weather requests
    mreq,      \* history: the instants of the lunar requests
    driver,    \* DRIVER_PROCESS: the ScreenDriver (process, count, reset_count)
    attempts,  \* history: calls of push_bitmap the current driver process has seen
    line,      \* history: the line the last push_bitmap built
    push_res   \* what the last push_bitmap returned

calVars == <<data, offset, limit, pc, bi, ci, gen, item, evs, origin, cev, cdate, cres, dprop, dres>>

monthVars == <<cals, layout_now, month_evs, month_slice, month_day, cell, mpc>>

dispatchVars == <<state, chan, run_pc, oneshot, run_out, entered, applied>>

fetchVars == <<shared, clock, deadline, fpc, fci, snap, fcals, fweather, fmoon,
               fres, fiter, model0, wreq, mreq>>

driverVars == <<driver, attempts, line, push_res>>

\* What the calendar core never touches.
otherVars == <<monthVars, dispatchVars, fetchVars, driverVars>>

\* What Month::render, the dispatcher and fetch_loop never touch.
notMonthVars == <<calVars, dispatchVars, fetchVars, driverVars>>
notDispatchVars == <<calVars, monthVars, fetchVars, driverVars>>
notFetchVars == <<calVars, monthVars, dispatchVars, driverVars>>
notDriverVars == <<calVars, monthVars, dispatchVars, fetchVars>>

vars == <<calVars, otherVars>>

\* Option<T>: None is the empty sequence, Some(x) the one-element sequence.
None == <<>>
Some(x) == <<x>>
IsSome(o) == o # <<>>
Unwrap(o) == o[1]

\* Month::render is not running.
MonthIdle ==
    /\ cals = <<>>
    /\ layout_now = 0
    /\ month_evs = <<>>
    /\ month_slice = <<>>
    /\ month_day = None
    /\ cell = None
    /\ mpc = "idle"

\* The tasks of main that hold a Dispatch<State>.
Tasks == {"clock_loop", "fetch_loop", "render_loop"}

\* No dispatcher is running.
DispatchIdle ==
    /\ state = 0
    /\ chan = <<>>
    /\ run_pc = [t \in Tasks |-> "off"]
    /\ oneshot = [t \in Tasks |-> None]
    /\ run_out = [t \in Tasks |-> None]
    /\ entered = <<>>
    /\ applied = <<>>

\* The configured calendars, by name.
Calendars == <<"home", "work">>

CalendarNames == {Calendars[i] : i \in 1..Len(Calendars)}

\* Model::default() : no calendar, no weather, no moon
Model_default ==
    [cals |-> [n \in CalendarNames |-> None], weather |-> None, moon |-> None]

\* No fetch_loop is running.
FetchIdle ==
    /\ shared = [model |-> Model_default, layout |-> [now |-> 0]]
    /\ clock = 0
    /\ deadline = 0
    /\ fpc = "off"
    /\ fci = 0
    /\ snap = None
    /\ fcals = <<>>
    /\ fweather = None
    /\ fmoon = None
    /\ fres = None
    /\ fiter = 0
    /\ model0 = None
    /\ wreq = <<>>
    /\ mreq = <<>>

\* No screen driver was started.
DriverIdle ==
    /\ driver = None
    /\ attempts = 0
    /\ line = None
    /\ push_res = None

OtherIdle == MonthIdle /\ DispatchIdle /\ FetchIdle /\ DriverIdle

-----------------------------------------------------------------------------
(* Calendar arithmetic of the time crate, as used by cal.rs.               *)

SecsPerDay == 24 * 60 * 60

\* Days from 0000-03-01 to 2000-01-01 in the proleptic Gregorian calendar
\* (719468 to 1970-01-01 and 10957 more).
EpochShift == 719468 + 10957

is_leap_year(y) == (y % 4 = 0) /\ ((y % 100 # 0) \/ (y % 400 = 0))

days_in_year_month(y, m) ==
    IF m = 2 THEN (IF is_leap_year(y) THEN 29 ELSE 28)
    ELSE IF m \in {4, 6, 9, 11} THEN 30 ELSE 31

\* Day number of day-of-era doe in era (400-year cycle starting 1 March).
DaysOfEra(era, doe) == era * 146097 + doe - EpochShift

\* Day-of-era of day-of-year doy (counted from 1 March) in year-of-era yoe.
DoeOf(yoe, doy) == yoe * 365 + yoe \div 4 - yoe \div 100 + doy

\* Day-of-year, counted from 1 March, of day d of month m.
DoyOfMonthDay(m, d) == (153 * ((m + 9) % 12) + 2) \div 5 + d - 1

FromMarchYear(yy, m, d) ==
    DaysOfEra(yy \div 400, DoeOf(yy % 400, DoyOfMonthDay(m, d)))

\* Date::from_calendar_date for a valid (y, m, d).
FromCivil(y, m, d) == FromMarchYear(IF m <= 2 THEN y - 1 ELSE y, m, d)

YoeOf(doe) == (doe - doe \div 1460 + doe \div 36524 - doe \div 146096) \div 365

DoyOf(doe, yoe) == doe - (365 * yoe + yoe \div 4 - yoe \div 100)

MonthOfMp(mp) == IF mp < 10 THEN mp + 3 ELSE mp - 9

CivilOfMp(yy, doy, mp) ==
    [y |-> yy + (IF mp < 10 THEN 0 ELSE 1),
     m |-> MonthOfMp(mp),
     d |-> doy - (153 * mp + 2) \div 5 + 1]

CivilOfDoy(yy, doy) == CivilOfMp(yy, doy, (5 * doy + 2) \div 153)

CivilOfYoe(era, doe, yoe) == CivilOfDoy(yoe + era * 400, DoyOf(doe, yoe))

CivilOfDoe(era, doe) == CivilOfYoe(era, doe, YoeOf(doe))

\* Date::to_calendar_date: [y, m, d] of a day number.
Civil(n) == CivilOfDoe((n + EpochShift) \div 146097, (n + EpochShift) % 146097)

\* Weekday as 0 = Monday .. 6 = Sunday (2000-01-01 was a Saturday).
weekday(n) == (n + 5) % 7

next_day(n) == n + 1

\* successors(Some(date), |x| x.next_day()).nth(k)
nth_day(n, k) == n + k

\* Date::next_occurrence: the first date strictly after n falling on weekday w.
next_occurrence(n, w) ==
    LET delta == (w - weekday(n) + 7) % 7
    IN  n + (IF delta = 0 THEN 7 ELSE delta)

\* Date::prev_occurrence: the last date strictly before n falling on weekday w.
prev_occurrence(n, w) ==
    LET delta == (weekday(n) - w + 7) % 7
    IN  n - (IF delta = 0 THEN 7 ELSE delta)

\* Date::nth_next_occurrence: the k-th date strictly after n falling on w.
\* The crate panics for k = 0 (checked_nth_next_occurrence is None): None here.
nth_next_occurrence(n, w, k) ==
    IF k = 0 THEN None ELSE Some(next_occurrence(n, w) + 7 * (k - 1))

\* Date::nth_prev_occurrence: likewise backwards; None stands for the panic.
nth_prev_occurrence(n, w, k) ==
    IF k = 0 THEN None ELSE Some(prev_occurrence(n, w) - 7 * (k - 1))

\* Date::replace_day: None (Err) when the day is not a day of the date's month.
replace_day(n, d) ==
    LET c == Civil(n)
    IN  IF d >= 1 /\ d <= days_in_year_month(c.y, c.m)
        THEN Some(FromCivil(c.y, c.m, d)) ELSE None

-----------------------------------------------------------------------------
(* OffsetDateTime.                                                         *)

ODT(date, tod, off) == [date |-> date, tod |-> tod, off |-> off]

\* Seconds since 2000-01-01T00:00:00Z: what Ord and Eq of OffsetDateTime compare.
Instant(t) == t.date * SecsPerDay + t.tod - t.off

\* OffsetDateTime::to_offset: the same instant, local fields in the new offset.
to_offset(t, off) ==
    LET local == Instant(t) + off
    IN  ODT(local \div SecsPerDay, local % SecsPerDay, off)

\* PrimitiveDateTime::assume_offset / Date::with_time(..).assume_offset
assume_offset(date, tod, off) == ODT(date, tod, off)

\* OffsetDateTime::replace_date: new local date, same local time and offset.
replace_date(t, date) == ODT(date, t.tod, t.off)

\* OffsetDateTime::replace_year: None (Err) when the day does not exist in
\* that year (29 February into a common year).
replace_year(t, y) ==
    LET c == Civil(t.date)
    IN  IF c.d <= days_in_year_month(y, c.m)
        THEN Some(ODT(FromCivil(y, c.m, c.d), t.tod, t.off)) ELSE None

\* OffsetDateTime - OffsetDateTime: a Duration in seconds.
Sub(a, b) == Instant(a) - Instant(b)

\* OffsetDateTime + Duration: same offset, local fields moved.
Add(t, dur) ==
    LET local == t.date * SecsPerDay + t.tod + dur
    IN  ODT(local \div SecsPerDay, local % SecsPerDay, t.off)

-----------------------------------------------------------------------------
(* Event.                                                                  *)

Event(summary, start, end) == [summary |-> summary, start |-> start, end |-> end]

covers_m(ev, date) == ev.start.date < date /\ ev.end.date >= date

covers(ev, date) == ev.start.date <= date /\ ev.end.date >= date

-----------------------------------------------------------------------------
(* Property values.  The structural parser hands over text; the texts the  *)
(* code parses with the time crate's ISO 8601 layout (ICAL_DT: no          *)
(* separators, second precision) are written by their shape:               *)
(*   [k |-> "D",   y, m, d]                  YYYYMMDD                      *)
(*   [k |-> "DT",  y, m, d, h, mi, s]        YYYYMMDDTHHMMSS               *)
(*   [k |-> "DTO", y, m, d, h, mi, s, off]   YYYYMMDDTHHMMSS(Z|+hhmm)      *)
(*   [k |-> "BAD"]                           anything else                 *)
(* Integer and BYDAY texts are sequences of one-character strings.         *)

DateText(y, m, d) == [k |-> "D", y |-> y, m |-> m, d |-> d]

DateTimeText(y, m, d, h, mi, s) ==
    [k |-> "DT", y |-> y, m |-> m, d |-> d, h |-> h, mi |-> mi, s |-> s]

OffsetText(y, m, d, h, mi, s, off) ==
    [k |-> "DTO", y |-> y, m |-> m, d |-> d, h |-> h, mi |-> mi, s |-> s, off |-> off]

BadText == [k |-> "BAD"]

ValidDate(t) == t.m \in 1..12 /\ t.d >= 1 /\ t.d <= days_in_year_month(t.y, t.m)

ValidTime(t) == t.h \in 0..23 /\ t.mi \in 0..59 /\ t.s \in 0..59

TimeOfDay(t) == t.h * 3600 + t.mi * 60 + t.s

\* Date::parse with FormattedComponents::Date
Date_parse(val) ==
    IF val.k = "D" /\ ValidDate(val) THEN Some(FromCivil(val.y, val.m, val.d)) ELSE None

\* PrimitiveDateTime::parse with FormattedComponents::DateTime: [date, tod]
PrimitiveDateTime_parse(val) ==
    IF val.k = "DT" /\ ValidDate(val) /\ ValidTime(val)
    THEN Some([date |-> FromCivil(val.y, val.m, val.d), tod |-> TimeOfDay(val)])
    ELSE None

\* OffsetDateTime::parse with ICAL_DT (date, time and offset all required)
OffsetDateTime_parse(val) ==
    IF val.k = "DTO" /\ ValidDate(val) /\ ValidTime(val)
    THEN Some(ODT(FromCivil(val.y, val.m, val.d), TimeOfDay(val), val.off))
    ELSE None

Digits == <<"0", "1", "2", "3", "4", "5", "6", "7", "8", "9">>

is_ascii_digit(c) == \E i \in 1..10 : Digits[i] = c

to_digit(c) == (CHOOSE i \in 1..10 : Digits[i] = c) - 1

RECURSIVE DigitsValue(_, _)
\* The value of a run of digits, most significant first, on top of acc.
DigitsValue(cs, acc) ==
    IF cs = <<>> THEN acc ELSE DigitsValue(Tail(cs), acc * 10 + to_digit(Head(cs)))

RECURSIVE StripZeros(_)
StripZeros(cs) == IF cs # <<>> /\ Head(cs) = "0" THEN StripZeros(Tail(cs)) ELSE cs

RECURSIVE DigitsGreater(_, _)
\* For two digit runs of equal length: a > b.
DigitsGreater(a, b) ==
    IF a = <<>> THEN FALSE
    ELSE IF to_digit(Head(a)) # to_digit(Head(b)) THEN to_digit(Head(a)) > to_digit(Head(b))
    ELSE DigitsGreater(Tail(a), Tail(b))

\* u8::MAX and u32::MAX, as digits.
U8MaxText == <<"2", "5", "5">>

U32MaxText == <<"4", "2", "9", "4", "9", "6", "7", "2", "9", "5">>

\* str::parse::<uN>(): an optional '+', then one digit or more and nothing
\* else; a value above uN::MAX is an error.  None stands for Err.
parse_uint(cs, max) ==
    LET ds == IF cs # <<>> /\ Head(cs) = "+" THEN Tail(cs) ELSE cs
        sz == StripZeros(ds)
    IN  IF ds = <<>> \/ (\E i \in 1..Len(ds) : ~is_ascii_digit(ds[i])) THEN None
        ELSE IF Len(sz) > Len(max) \/ (Len(sz) = Len(max) /\ DigitsGreater(sz, max))
             THEN None
        ELSE Some(DigitsValue(sz, 0))

-----------------------------------------------------------------------------
(* Properties of a component.                                              *)

\* ical::property::Property: value is an Option, params a list of
\* <<name, list of values>> (None and the empty list behave alike here).
Property(name, value, params) == [name |-> name, value |-> value, params |-> params]

\* PropParser::find: the first property of that name.
find(props, name) ==
    IF \E i \in 1..Len(props) : props[i].name = name
    THEN Some(props[CHOOSE i \in 1..Len(props) :
                  /\ props[i].name = name
                  /\ \A j \in 1..(i - 1) : props[j].name # name])
    ELSE None

\* find_param: the first value of the first parameter of that name.
find_param(prop, name) ==
    LET ps == prop.params
    IN  IF \E i \in 1..Len(ps) : ps[i][1] = name
        THEN LET i == CHOOSE i \in 1..Len(ps) :
                          /\ ps[i][1] = name
                          /\ \A j \in 1..(i - 1) : ps[j][1] # name
             IN  IF ps[i][2] = <<>> THEN None ELSE Some(ps[i][2][1])
        ELSE None

\* PropParser::parse with PropParser::str's closure: the value, if any.
str(props, name) ==
    LET p == find(props, name)
    IN  IF IsSome(p) THEN Unwrap(p).value ELSE None

\* UtcOffset::from_hms(10, 0, 0)
BrisbaneOffset == 10 * 3600

\* UtcOffset::from_hms(h, 0, 0) with h = 10 and h = 11
SydneyStandard == 10 * 3600

SydneyDaylight == 11 * 3600

datetime_unhandled_m(val, id, off) ==
    LET dt == PrimitiveDateTime_parse(val)
    IN  IF IsSome(dt) THEN Some(assume_offset(Unwrap(dt).date, Unwrap(dt).tod, off))
        ELSE None

\* The `Some(id)` arm of PropParser::datetime: an unhandled TZID.
datetime_unhandled(val, id, off) == None

datetime_date_m(val, off) ==
    LET d == Date_parse(val)
    IN  IF IsSome(d) THEN Some(assume_offset(Unwrap(d), 0, 0)) ELSE None

\* The `Some("DATE")` arm: midnight of the date, at the offset of the call.
datetime_date(val, off) ==
    LET d == Date_parse(val)
    IN  IF IsSome(d) THEN Some(assume_offset(Unwrap(d), 0, off)) ELSE None

datetime_brisbane_m(val) ==
    LET dt == PrimitiveDateTime_parse(val)
    IN  IF IsSome(dt)
        THEN LET m == Civil(Unwrap(dt).date).m
             IN  Some(assume_offset(Unwrap(dt).date, Unwrap(dt).tod,
                                    IF m <= 3 \/ m >= 10 THEN SydneyDaylight
                                    ELSE BrisbaneOffset))
        ELSE None

\* The `Some("Australia/Brisbane")` arm.
datetime_brisbane(val) ==
    LET dt == PrimitiveDateTime_parse(val)
    IN  IF IsSome(dt)
        THEN Some(assume_offset(Unwrap(dt).date, Unwrap(dt).tod, BrisbaneOffset))
        ELSE None

sydney_offset_m(m) == IF m <= 3 \/ m >= 9 THEN SydneyDaylight ELSE SydneyStandard

\* let h = if m <= 3 || m >= 10 { 11 } else { 10 }
sydney_offset(m) == IF m <= 3 \/ m >= 10 THEN SydneyDaylight ELSE SydneyStandard

datetime_sydney_m(val) ==
    LET dt == PrimitiveDateTime_parse(val)
    IN  IF IsSome(dt)
        THEN LET m == Civil(Unwrap(dt).date).m
             IN  Some(assume_offset(Unwrap(dt).date, Unwrap(dt).tod,
                                    IF m <= 3 \/ m >= 10 THEN SydneyStandard
                                    ELSE SydneyDaylight))
        ELSE None

\* The `Some("Australia/Sydney")` arm.
datetime_sydney(val) ==
    LET dt == PrimitiveDateTime_parse(val)
    IN  IF IsSome(dt)
        THEN Some(assume_offset(Unwrap(dt).date, Unwrap(dt).tod,
                                sydney_offset(Civil(Unwrap(dt).date).m)))
        ELSE None

\* The closure of PropParser::datetime on a found property.
datetime_of(p, off) ==
    IF ~IsSome(p.value) THEN None
    ELSE LET val  == Unwrap(p.value)
             tzid == find_param(p, "TZID")
             tz   == IF IsSome(tzid) THEN tzid ELSE find_param(p, "VALUE")
         IN  IF tz = Some("DATE") THEN datetime_date(val, off)
             ELSE IF tz = Some("Australia/Brisbane") THEN datetime_brisbane(val)
             ELSE IF tz = Some("Australia/Sydney") THEN datetime_sydney(val)
             ELSE IF IsSome(tz) THEN datetime_unhandled(val, Unwrap(tz), off)
             ELSE OffsetDateTime_parse(val)

\* PropParser::datetime
datetime(props, name, off) ==
    LET p == find(props, name)
    IN  IF IsSome(p) THEN datetime_of(Unwrap(p), off) ELSE None

-----------------------------------------------------------------------------
(* RepeatRule.                                                             *)

\* Freq::parse
Freq_parse(val) ==
    IF val = "DAILY" THEN Some("Daily")
    ELSE IF val = "WEEKLY" THEN Some("Weekly")
    ELSE IF val = "MONTHLY" THEN Some("Monthly")
    ELSE IF val = "YEARLY" THEN Some("Yearly")
    ELSE None

\* parse_by_day::parse_weekday
parse_weekday(val) ==
    IF val = <<"M", "O">> THEN Some(0)
    ELSE IF val = <<"T", "U">> THEN Some(1)
    ELSE IF val = <<"W", "E">> THEN Some(2)
    ELSE IF val = <<"T", "H">> THEN Some(3)
    ELSE IF val = <<"F", "R">> THEN Some(4)
    ELSE IF val = <<"S", "A">> THEN Some(5)
    ELSE IF val = <<"S", "U">> THEN Some(6)
    ELSE None

\* parse_by_day::parse_int: <<Option<i8>, rest>>.  `neg` is set by a leading
\* '-' and never read afterwards.
parse_int(val) ==
    LET neg == val # <<>> /\ Head(val) = "-"
        v   == IF neg THEN Tail(val) ELSE val
    IN  IF v # <<>> /\ is_ascii_digit(Head(v))
        THEN <<Some(to_digit(Head(v))), Tail(v)>>
        ELSE <<None, v>>

\* parse_by_day: Option<(Weekday, i8)>
parse_by_day(val) ==
    LET r == parse_int(val)
        w == parse_weekday(r[2])
    IN  IF IsSome(w)
        THEN Some(<<Unwrap(w), IF IsSome(r[1]) THEN Unwrap(r[1]) ELSE 0>>)
        ELSE None

\* try_various_untils: a full timestamp, else a bare date at midnight UTC.
try_various_untils(val) ==
    LET full == OffsetDateTime_parse(val)
        d    == Date_parse(val)
    IN  IF IsSome(full) THEN full
        ELSE IF IsSome(d) THEN Some(assume_offset(Unwrap(d), 0, 0))
        ELSE None

\* RepeatRule::default()
DefaultRule ==
    [freq |-> "Weekly", until |-> None, by_day |-> None, by_month_day |-> None,
     interval |-> None, count |-> None]

\* One turn of the loop of RepeatRule::parse on the pair (key, val).
\* st = [freq, this, panic]; an `expect` on a failed parse sets panic.
parse_pair(st, key, val) ==
    IF key = "FREQ" THEN [st EXCEPT !.freq = Freq_parse(val)]
    ELSE IF key = "UNTIL" THEN
        LET u == try_various_untils(val)
        IN  IF IsSome(u) THEN [st EXCEPT !.this.until = u] ELSE [st EXCEPT !.panic = TRUE]
    ELSE IF key = "BYDAY" THEN [st EXCEPT !.this.by_day = parse_by_day(val)]
    ELSE IF key = "BYMONTHDAY" THEN
        LET n == parse_uint(val, U8MaxText)
        IN  IF IsSome(n) THEN [st EXCEPT !.this.by_month_day = n]
            ELSE [st EXCEPT !.panic = TRUE]
    ELSE IF key = "INTERVAL" THEN
        LET n == parse_uint(val, U32MaxText)
        IN  IF IsSome(n) THEN [st EXCEPT !.this.interval = n]
            ELSE [st EXCEPT !.panic = TRUE]
    ELSE IF key = "COUNT" THEN
        LET n == parse_uint(val, U32MaxText)
        IN  IF IsSome(n) THEN [st EXCEPT !.this.count = n]
            ELSE [st EXCEPT !.panic = TRUE]
    ELSE st

RECURSIVE parse_loop(_, _)
\* s.split(';').filter_map(|x| x.split_once('=')): a segment without '=' is
\* a one-element sequence and is skipped.
parse_loop(segs, st) ==
    IF segs = <<>> \/ st.panic THEN st
    ELSE LET seg == Head(segs)
         IN  parse_loop(Tail(segs),
                  IF Len(seg) = 2 THEN parse_pair(st, seg[1], seg[2]) ELSE st)

\* RepeatRule::parse: [panic, rule]; rule is None when FREQ was never set
\* to a known frequency.
RepeatRule_parse(segs) ==
    LET st == parse_loop(segs, [freq |-> None, this |-> DefaultRule, panic |-> FALSE])
    IN  IF st.panic THEN [panic |-> TRUE, rule |-> None]
        ELSE IF IsSome(st.freq)
             THEN [panic |-> FALSE, rule |-> Some([st.this EXCEPT !.freq = Unwrap(st.freq)])]
        ELSE [panic |-> FALSE, rule |-> None]

\* RepeatRule::to_offset
rule_to_offset(r, off) ==
    [r EXCEPT !.until = IF IsSome(r.until) THEN Some(to_offset(Unwrap(r.until), off))
                        ELSE None]

\* PropParser::rrule followed by .map(|x| x.to_offset(offset)) of make_event
rrule(props, off) ==
    LET p == find(props, "RRULE")
    IN  IF ~IsSome(p) \/ ~IsSome(Unwrap(p).value) THEN [panic |-> FALSE, rule |-> None]
        ELSE LET r == RepeatRule_parse(Unwrap(Unwrap(p).value))
             IN  IF IsSome(r.rule)
                 THEN [panic |-> FALSE, rule |-> Some(rule_to_offset(Unwrap(r.rule), off))]
                 ELSE r

filter_until_counted_m(r, start) ==
    IF IsSome(r.until) /\ ~IsSome(r.count)
    THEN (IF Instant(start) < Instant(Unwrap(r.until)) THEN Some(start) ELSE None)
    ELSE Some(start)

filter_until_m(r, start) ==
    IF IsSome(r.until)
    THEN (IF Instant(start) <= Instant(Unwrap(r.until)) THEN Some(start) ELSE None)
    ELSE Some(start)

\* RepeatRule::filter_until
filter_until(r, start) ==
    IF IsSome(r.until)
    THEN (IF Instant(start) < Instant(Unwrap(r.until)) THEN Some(start) ELSE None)
    ELSE Some(start)

\* The candidate start of each arm of RepeatRule::next, before filter_until:
\* [panic, start], start None where the code leaves through `?`.

MonthlyStep == 32

WeeklyStep == 7

daily_start_m(r, ev) ==
    [panic |-> FALSE, start |-> Some(replace_date(ev.start, nth_day(ev.start.date, 1)))]

\* Freq::Daily, lines 244-247
daily_start(r, ev) ==
    LET k == IF IsSome(r.interval) THEN Unwrap(r.interval) ELSE 1
    IN  [panic |-> FALSE, start |-> Some(replace_date(ev.start, nth_day(ev.start.date, k)))]

weekly_start_interval_m(r, ev) ==
    LET k == IF IsSome(r.interval) THEN Unwrap(r.interval) ELSE 1
        d == IF IsSome(r.by_day)
             THEN next_occurrence(ev.start.date, Unwrap(r.by_day)[1]) + WeeklyStep * (k - 1)
             ELSE nth_day(ev.start.date, WeeklyStep * k)
    IN  [panic |-> FALSE, start |-> Some(replace_date(ev.start, d))]

weekly_start_m(r, ev) ==
    [panic |-> FALSE,
     start |-> Some(replace_date(ev.start, nth_day(ev.start.date, WeeklyStep)))]

\* Freq::Weekly, lines 258-263
weekly_start(r, ev) ==
    LET d == IF IsSome(r.by_day) THEN next_occurrence(ev.start.date, Unwrap(r.by_day)[1])
             ELSE nth_day(ev.start.date, WeeklyStep)
    IN  [panic |-> FALSE, start |-> Some(replace_date(ev.start, d))]

monthly_start_clamped_m(r, ev) ==
    LET s0  == nth_day(ev.start.date, MonthlyStep)
        c   == Civil(s0)
        dim == days_in_year_month(c.y, c.m)
        dd  == Civil(ev.start.date).d
        d   == IF IsSome(r.by_month_day) THEN
                   LET m == Unwrap(r.by_month_day)
                   IN  replace_day(s0, IF m < dim THEN m ELSE dim)
               ELSE IF IsSome(r.by_day) THEN
                   LET day == Unwrap(r.by_day)[1]
                       i   == Unwrap(r.by_day)[2]
                   IN  IF i > 0
                       THEN nth_next_occurrence(Unwrap(replace_day(s0, 1)), day, i)
                       ELSE nth_prev_occurrence(Unwrap(replace_day(s0, dim)), day, 0 - i)
               ELSE replace_day(s0, IF dd < dim THEN dd ELSE dim)
    IN  IF IsSome(d) THEN [panic |-> FALSE, start |-> Some(replace_date(ev.start, Unwrap(d)))]
        ELSE [panic |-> TRUE, start |-> None]

\* Freq::Monthly, lines 274-298; every unwrap() on None is a panic
monthly_start(r, ev) ==
    LET s0  == nth_day(ev.start.date, MonthlyStep)
        c   == Civil(s0)
        dim == days_in_year_month(c.y, c.m)
        d   == IF IsSome(r.by_month_day) THEN
                   LET m == Unwrap(r.by_month_day)
                   IN  replace_day(s0, IF m < dim THEN m ELSE dim)
               ELSE IF IsSome(r.by_day) THEN
                   LET day == Unwrap(r.by_day)[1]
                       i   == Unwrap(r.by_day)[2]
                   IN  IF i > 0
                       THEN nth_next_occurrence(Unwrap(replace_day(s0, 1)), day, i)
                       ELSE nth_prev_occurrence(Unwrap(replace_day(s0, dim)), day, 0 - i)
               ELSE replace_day(s0, Civil(ev.start.date).d)
    IN  IF IsSome(d) THEN [panic |-> FALSE, start |-> Some(replace_date(ev.start, Unwrap(d)))]
        ELSE [panic |-> TRUE, start |-> None]

yearly_start_m(r, ev) ==
    LET k == IF IsSome(r.interval) THEN Unwrap(r.interval) ELSE 1
    IN  [panic |-> FALSE,
         start |-> Some(replace_date(ev.start, nth_day(ev.start.date, 365 * k)))]

\* Freq::Yearly, lines 309-312; expect("should be fine") on Err is a panic
yearly_start(r, ev) ==
    LET k == IF IsSome(r.interval) THEN Unwrap(r.interval) ELSE 1
        s == replace_year(ev.start, Civil(ev.start.date).y + k)
    IN  IF IsSome(s) THEN [panic |-> FALSE, start |-> s]
        ELSE [panic |-> TRUE, start |-> None]

next_end_m(ev, start) == ev.end

\* let end = start + (ev.end - ev.start);
next_end(ev, start) == Add(start, Sub(ev.end, ev.start))

count_check_m(r) ==
    IF IsSome(r.count)
    THEN [stop |-> Unwrap(r.count) <= 1,
          rule |-> [r EXCEPT !.count = Some(IF Unwrap(r.count) = 0 THEN 0
                                            ELSE Unwrap(r.count) - 1)]]
    ELSE [stop |-> FALSE, rule |-> r]

\* match &mut self.count { Some(0) => return None, Some(x) => *x -= 1,
\* None => () }: [stop, rule], rule being self afterwards.
count_check(r) ==
    IF r.count = Some(0) THEN [stop |-> TRUE, rule |-> r]
    ELSE IF IsSome(r.count)
    THEN [stop |-> FALSE, rule |-> [r EXCEPT !.count = Some(Unwrap(r.count) - 1)]]
    ELSE [stop |-> FALSE, rule |-> r]

\* match freq { .. }: the candidate start of the arm taken, [panic, start].
candidate_start(r, ev) ==
    IF r.freq = "Daily" THEN daily_start(r, ev)
    ELSE IF r.freq = "Weekly" THEN weekly_start(r, ev)
    ELSE IF r.freq = "Monthly" THEN monthly_start(r, ev)
    ELSE yearly_start(r, ev)

RepeatRule_next_m(r, ev) ==
    LET cc == count_check(r)
        r2 == cc.rule
    IN  IF cc.stop THEN [panic |-> FALSE, rule |-> r2, ev |-> None]
        ELSE LET c == candidate_start(r2, ev)
             IN  IF c.panic THEN [panic |-> TRUE, rule |-> r2, ev |-> None]
                 ELSE LET start == filter_until(r2, Unwrap(c.start))
                      IN  IF IsSome(start)
                          THEN [panic |-> FALSE, rule |-> r2,
                                ev |-> Some(Event("", Unwrap(start),
                                                  next_end(ev, Unwrap(start))))]
                          ELSE [panic |-> FALSE, rule |-> r2, ev |-> None]

\* RepeatRule::next: [panic, rule, ev]; rule is self after the call, ev the
\* Option<Event> returned.
RepeatRule_next(r, ev) ==
    LET cc == count_check(r)
        r2 == cc.rule
    IN  IF cc.stop THEN [panic |-> FALSE, rule |-> r2, ev |-> None]
        ELSE LET c == candidate_start(r2, ev)
             IN  IF c.panic THEN [panic |-> TRUE, rule |-> r2, ev |-> None]
                 ELSE LET start == filter_until(r2, Unwrap(c.start))
                      IN  IF IsSome(start)
                          THEN [panic |-> FALSE, rule |-> r2,
                                ev |-> Some(Event(ev.summary, Unwrap(start),
                                                  next_end(ev, Unwrap(start))))]
                          ELSE [panic |-> FALSE, rule |-> r2, ev |-> None]

-----------------------------------------------------------------------------
(* make_event and parse_ical.                                              *)

first_m(props, off) ==
    LET summary == str(props, "SUMMARY")
        start   == datetime(props, "DTSTART", off)
        end     == datetime(props, "DTEND", off)
    IN  IF IsSome(summary) /\ IsSome(start) /\ IsSome(end)
        THEN Some(Event(Unwrap(summary), Unwrap(start), Unwrap(end)))
        ELSE None

\* The closure `first` of make_event: the seed Event, or None when SUMMARY,
\* DTSTART or DTEND does not resolve.
first(props, off) ==
    LET summary == str(props, "SUMMARY")
        start   == datetime(props, "DTSTART", off)
        end     == datetime(props, "DTEND", off)
    IN  IF IsSome(summary) /\ IsSome(start) /\ IsSome(end)
        THEN Some(Event(Unwrap(summary), to_offset(Unwrap(start), off),
                        to_offset(Unwrap(end), off)))
        ELSE None

take_while_pred_m(x, lim) == Instant(x.start) <= Instant(lim)

\* .take_while(|x| x.start < limit)
take_while_pred(x, lim) == Instant(x.start) < Instant(lim)

sorted_rank_m(es, i) ==
    1 + Cardinality({ j \in 1..Len(es) :
            \/ Instant(es[j].start) < Instant(es[i].start)
            \/ (Instant(es[j].start) = Instant(es[i].start) /\ j > i) })

\* Where a.start.cmp(&b.start) and stability put element i of es: behind
\* every element that starts earlier and every earlier element that starts
\* at the same instant.
sorted_rank(es, i) ==
    1 + Cardinality({ j \in 1..Len(es) :
            \/ Instant(es[j].start) < Instant(es[i].start)
            \/ (Instant(es[j].start) = Instant(es[i].start) /\ j < i) })

sort_order_m(es) == [p \in 1..Len(es) |-> p]

\* The order evs.sort_by(|a, b| a.start.cmp(&b.start)) puts es in (slice
\* sort_by is a stable sort): position p of the result holds es[order[p]].
sort_order(es) ==
    LET rank == [i \in 1..Len(es) |-> sorted_rank(es, i)]
    IN  [p \in 1..Len(es) |-> CHOOSE i \in 1..Len(es) : rank[i] = p]

\* The cap on the length of evs: an expansion that never ends is followed
\* for this many pushes.
MaxEvents == 32

ParserNext_m ==
    /\ pc = "parser"
    /\ IF bi = Len(data)
       THEN /\ pc' = "sort"
            /\ UNCHANGED <<bi, ci>>
       ELSE /\ bi' = bi + 1
            /\ ci' = 0
            /\ pc' = IF data[bi + 1].ok THEN "flat_map" ELSE "parser"
    /\ UNCHANGED <<data, offset, limit, gen, item, evs, origin, cev, cdate, cres, dprop, dres>>
    /\ UNCHANGED otherVars

\* for cal in parser { let cal = cal...?; ... }
ParserNext ==
    /\ pc = "parser"
    /\ IF bi = Len(data)
       THEN /\ pc' = "sort"
            /\ UNCHANGED <<bi, ci>>
       ELSE /\ bi' = bi + 1
            /\ ci' = 0
            /\ pc' = IF data[bi + 1].ok THEN "flat_map" ELSE "Err"
    /\ UNCHANGED <<data, offset, limit, gen, item, evs, origin, cev, cdate, cres, dprop, dres>>
    /\ UNCHANGED otherVars

MakeEvent_m ==
    /\ pc = "flat_map"
    /\ IF ci = Len(data[bi].events)
       THEN /\ pc' = "parser"
            /\ UNCHANGED <<ci, gen>>
       ELSE LET props == data[bi].events[ci + 1]
                rr    == rrule(props, offset)
            IN  /\ ci' = ci + 1
                /\ IF rr.panic
                   THEN /\ pc' = "panic"
                        /\ UNCHANGED gen
                   ELSE /\ pc' = "successors"
                        /\ gen' = [next  |-> first(props, offset),
                                   rrule |-> IF IsSome(gen.rrule) /\ IsSome(rr.rule)
                                             THEN gen.rrule ELSE rr.rule,
                                   k     |-> 0]
    /\ UNCHANGED <<data, offset, limit, bi, item, evs, origin, cev, cdate, cres, dprop, dres>>
    /\ UNCHANGED otherVars

\* flat_map pulls the next component of cal.events and calls make_event on it.
MakeEvent ==
    /\ pc = "flat_map"
    /\ IF ci = Len(data[bi].events)
       THEN /\ pc' = "parser"
            /\ UNCHANGED <<ci, gen>>
       ELSE LET props == data[bi].events[ci + 1]
                rr    == rrule(props, offset)
            IN  /\ ci' = ci + 1
                /\ IF rr.panic
                   THEN /\ pc' = "panic"
                        /\ UNCHANGED gen
                   ELSE /\ pc' = "successors"
                        /\ gen' = [next |-> first(props, offset), rrule |-> rr.rule, k |-> 0]
    /\ UNCHANGED <<data, offset, limit, bi, item, evs, origin, cev, cdate, cres, dprop, dres>>
    /\ UNCHANGED otherVars

\* Successors::next, called by take_while for flat_map: it takes the stored
\* item and computes its successor at once, before the item is looked at.
Pull ==
    /\ pc = "successors"
    /\ IF ~IsSome(gen.next)
       THEN /\ pc' = "flat_map"
            /\ UNCHANGED <<gen, item>>
       ELSE LET succ == IF IsSome(gen.rrule)
                        THEN RepeatRule_next(Unwrap(gen.rrule), Unwrap(gen.next))
                        ELSE [panic |-> FALSE, rule |-> None, ev |-> None]
            IN  IF succ.panic
                THEN /\ pc' = "panic"
                     /\ UNCHANGED <<gen, item>>
                ELSE /\ gen' = [next  |-> succ.ev,
                                rrule |-> IF IsSome(gen.rrule) THEN Some(succ.rule) ELSE None,
                                k     |-> IF gen.k < MaxEvents THEN gen.k + 1 ELSE gen.k]
                     /\ item' = gen.next
                     /\ pc' = "take_while"
    /\ UNCHANGED <<data, offset, limit, bi, ci, evs, origin, cev, cdate, cres, dprop, dres>>
    /\ UNCHANGED otherVars

\* take_while's predicate on the item pulled: extend pushes the item, or the
\* stream of this component ends.  Of a stream longer than MaxEvents the
\* model keeps the first MaxEvents events.
TakeWhile ==
    /\ pc = "take_while"
    /\ IF take_while_pred(Unwrap(item), limit)
       THEN /\ pc' = "successors"
            /\ IF Len(evs) < MaxEvents
               THEN /\ evs' = Append(evs, Unwrap(item))
                    /\ origin' = Append(origin, <<bi, ci, gen.k - 1>>)
               ELSE UNCHANGED <<evs, origin>>
       ELSE /\ pc' = "flat_map"
            /\ UNCHANGED <<evs, origin>>
    /\ item' = None
    /\ UNCHANGED <<data, offset, limit, bi, ci, gen, cev, cdate, cres, dprop, dres>>
    /\ UNCHANGED otherVars

\* evs.sort_by(..); Ok(evs)
Sort ==
    /\ pc = "sort"
    /\ evs' = [p \in 1..Len(evs) |-> evs[sort_order(evs)[p]]]
    /\ origin' = [p \in 1..Len(evs) |-> origin[sort_order(evs)[p]]]
    /\ pc' = "Ok"
    /\ UNCHANGED <<data, offset, limit, bi, ci, gen, item, cev, cdate, cres, dprop, dres>>
    /\ UNCHANGED otherVars

-----------------------------------------------------------------------------
(* Inputs.  Calendars are built from a few seeds (DTSTART/DTEND pairs in   *)
(* every parameter form the code knows) and recurrence rule texts made of  *)
(* FREQ plus up to two further pairs, each value well-formed or not.       *)

NoParams == <<>>
TzBrisbane == << <<"TZID", <<"Australia/Brisbane">> >> >>
TzSydney == << <<"TZID", <<"Australia/Sydney">> >> >>
TzParis == << <<"TZID", <<"Europe/Paris">> >> >>
ValueDate == << <<"VALUE", <<"DATE">> >> >>

\* [start, end]: the DTSTART and DTEND properties of a seed.
Seed(params, startText, endText) ==
    [start |-> Property("DTSTART", Some(startText), params),
     end   |-> Property("DTEND", Some(endText), params)]

\* Saturday 2024-01-13 08:30-09:30 Brisbane (tests::event_repetition)
SeedA == Seed(TzBrisbane, DateTimeText(2024, 1, 13, 8, 30, 0),
                          DateTimeText(2024, 1, 13, 9, 30, 0))
\* Saturday 2024-01-20 08:30-09:30 Brisbane (tests::event_repetition)
SeedB == Seed(TzBrisbane, DateTimeText(2024, 1, 20, 8, 30, 0),
                          DateTimeText(2024, 1, 20, 9, 30, 0))
\* Wednesday 2024-01-31 23:30 to 00:30 the next day, Sydney
SeedC == Seed(TzSydney, DateTimeText(2024, 1, 31, 23, 30, 0),
                        DateTimeText(2024, 2, 1, 0, 30, 0))
\* all of 2024-02-29, as bare dates
SeedD == Seed(ValueDate, DateText(2024, 2, 29), DateText(2024, 3, 1))
\* 2024-01-15 22:00-23:00 UTC, as full timestamps
SeedE == Seed(NoParams, OffsetText(2024, 1, 15, 22, 0, 0, 0),
                        OffsetText(2024, 1, 15, 23, 0, 0, 0))
\* a zone outside the table
SeedParis == Seed(TzParis, DateTimeText(2024, 1, 14, 8, 30, 0),
                           DateTimeText(2024, 1, 14, 9, 30, 0))

FreqSegs ==
    { <<"FREQ", "DAILY">>, <<"FREQ", "WEEKLY">>, <<"FREQ", "MONTHLY">>,
      <<"FREQ", "YEARLY">>, <<"FREQ", "HOURLY">> }

IntervalSegs ==
    { <<"INTERVAL", <<"2">> >>, <<"INTERVAL", <<"0">> >>, <<"INTERVAL", <<"x">> >> }

CountSegs ==
    { <<"COUNT", <<"0">> >>, <<"COUNT", <<"2">> >>, <<"COUNT", <<"2", "x">> >> }

UntilSegs ==
    { <<"UNTIL", OffsetText(2024, 1, 19, 13, 59, 59, 0)>>,
      <<"UNTIL", DateText(2024, 2, 3)>>,
      <<"UNTIL", BadText>> }

ByDaySegs ==
    { <<"BYDAY", <<"S", "A">> >>, <<"BYDAY", <<"2", "T", "U">> >>,
      <<"BYDAY", <<"-", "1", "S", "U">> >>, <<"BYDAY", <<"X", "X">> >> }

ByMonthDaySegs ==
    { <<"BYMONTHDAY", <<"0">> >>, <<"BYMONTHDAY", <<"1", "5">> >>,
      <<"BYMONTHDAY", <<"3", "1">> >>, <<"BYMONTHDAY", <<"-", "1">> >>,
      <<"BYMONTHDAY", <<"3", "0", "0">> >> }

ModSegs == IntervalSegs \cup CountSegs \cup UntilSegs \cup ByDaySegs \cup ByMonthDaySegs

\* Key order of the pairs behind FREQ.
KeyRank(k) ==
    CASE k = "INTERVAL" -> 1 [] k = "COUNT" -> 2 [] k = "UNTIL" -> 3
      [] k = "BYDAY" -> 4 [] k = "BYMONTHDAY" -> 5

\* FREQ alone, FREQ and one pair, FREQ and two pairs of different keys.
RulesWithFreq ==
    { <<f>> : f \in FreqSegs }
    \cup { <<f, a>> : f \in FreqSegs, a \in ModSegs }
    \cup { <<f, ab[1], ab[2]>> : f \in FreqSegs,
           ab \in { x \in ModSegs \X ModSegs : KeyRank(x[1][1]) < KeyRank(x[2][1]) } }

\* Weekly until 2024-01-26 22:30:00 UTC, the instant 2024-01-27 08:30 +10.
RuleUntilExact ==
    << <<"FREQ", "WEEKLY">>, <<"UNTIL", OffsetText(2024, 1, 26, 22, 30, 0, 0)>> >>

\* The two rules of tests::event_repetition, FREQ last, FREQ missing, a
\* segment without '=', FREQ given twice, an UNTIL that a candidate of SeedA
\* hits to the second.
RulesSpecial ==
    { << <<"FREQ", "WEEKLY">>, <<"WKST", "SU">>,
         <<"UNTIL", OffsetText(2024, 1, 19, 13, 59, 59, 0)>>, <<"BYDAY", <<"S", "A">> >> >>,
      << <<"FREQ", "WEEKLY">>, <<"WKST", "SU">>, <<"BYDAY", <<"S", "A">> >> >>,
      << <<"COUNT", <<"2">> >>, <<"FREQ", "DAILY">> >>,
      << <<"COUNT", <<"2">> >> >>,
      << <<"INTERVAL", <<"x">> >> >>,
      << <<"FREQ">>, <<"COUNT", <<"2">> >> >>,
      << <<"FREQ", "DAILY">>, <<"junk">>, <<"COUNT", <<"+", "1">> >> >>,
      << <<"FREQ", "DAILY">>, <<"FREQ", "HOURLY">> >>,
      << <<"FREQ", "HOURLY">>, <<"FREQ", "YEARLY">> >>,
      RuleUntilExact }

RuleTexts == RulesWithFreq \cup RulesSpecial

\* The RRULE property: absent, without a value, or one of the texts.
RRuleProps ==
    { <<>>, <<Property("RRULE", None, NoParams)>> }
    \cup { <<Property("RRULE", Some(t), NoParams)>> : t \in RuleTexts }

Summary(text) == <<Property("SUMMARY", Some(text), NoParams)>>

\* A component: the property list of an IcalEvent, in the order of the test.
Component(seed, rr, summary) == <<seed.start, seed.end>> \o rr \o summary

Block(events) == [ok |-> TRUE, events |-> events]

\* A calendar block the structural parser fails on.
BadBlock == [ok |-> FALSE, events |-> <<>>]

TargetOffsets == {36000, 0}

\* 2024-01-13 08:30 +10, the start of SeedA
HorizonAtSeed == ODT(FromCivil(2024, 1, 13), 30600, 36000)
\* 2024-01-27 08:30 +10 written in UTC
HorizonUtc == ODT(FromCivil(2024, 1, 26), 81000, 0)
\* 2024-02-10 00:00 +10 (tests::event_repetition)
HorizonTest == ODT(FromCivil(2024, 2, 10), 0, 36000)
\* 2025-03-01 00:00 +10
HorizonFar == ODT(FromCivil(2025, 3, 1), 0, 36000)

IsSlow(t) == t[1][1] = "FREQ" /\ t[1][2] \in {"MONTHLY", "YEARLY"}

RRule(t) == <<Property("RRULE", Some(t), NoParams)>>

RuleTest1 ==
    << <<"FREQ", "WEEKLY">>, <<"WKST", "SU">>,
       <<"UNTIL", OffsetText(2024, 1, 19, 13, 59, 59, 0)>>, <<"BYDAY", <<"S", "A">> >> >>

RuleTest2 == << <<"FREQ", "WEEKLY">>, <<"WKST", "SU">>, <<"BYDAY", <<"S", "A">> >> >>

RuleDaily2 == << <<"FREQ", "DAILY">>, <<"COUNT", <<"2">> >> >>

\* The two components of tests::event_repetition.
CompTest1 == Component(SeedA, RRule(RuleTest1), Summary("Test"))
CompTest2 == Component(SeedB, RRule(RuleTest2), Summary("Test2"))

\* Components for calendars of two: sound ones, ones whose SUMMARY, DTSTART
\* or DTEND is missing, without value, unparseable or in an unknown zone
\* (with and without a rule), and ones whose rule makes the code panic.
PairComponents ==
    { CompTest1, CompTest2,
      Component(SeedE, <<>>, Summary("Plain")),
      Component(SeedC, RRule(RuleDaily2), Summary("Daily")),
      Component(SeedD, RRule(<< <<"FREQ", "WEEKLY">> >>), Summary("Weekly")),
      Component(SeedA, RRule(RuleDaily2), <<>>),
      Component(SeedA, RRule(RuleDaily2), <<Property("SUMMARY", None, NoParams)>>),
      Component(SeedA, RRule(<< <<"FREQ", "DAILY">>, <<"INTERVAL", <<"x">> >> >>), <<>>),
      Component(SeedParis, RRule(RuleTest2), Summary("Paris")),
      Component(Seed(TzBrisbane, BadText, DateTimeText(2024, 1, 13, 9, 30, 0)),
                RRule(RuleDaily2), Summary("BadStart")),
      Component(Seed(TzBrisbane, DateTimeText(2024, 2, 30, 8, 30, 0),
                     DateTimeText(2024, 3, 1, 9, 30, 0)), <<>>, Summary("Feb30")),
      <<SeedA.start, Property("DTEND", None, TzBrisbane)>> \o RRule(RuleDaily2)
          \o Summary("NoEnd"),
      <<SeedA.start>> \o RRule(RuleTest2) \o Summary("MissingEnd"),
      <<SeedA.start, SeedParis.end>> \o Summary("ParisEnd"),
      Component(SeedA, RRule(<< <<"FREQ", "MONTHLY">>, <<"BYDAY", <<"S", "A">> >> >>),
                Summary("Monthly")) }

\* The ways two components arrive: one block, two blocks, an empty block
\* first, a block the structural parser fails on in between.
PairCalendars ==
    UNION { { <<Block(<<a, b>>)>>,
              <<Block(<<a>>), Block(<<b>>)>>,
              <<Block(<<>>), Block(<<a, b>>)>>,
              <<Block(<<a>>), BadBlock, Block(<<b>>)>> } :
            a \in PairComponents, b \in PairComponents }

\* The rule texts of FREQ and at most one further pair, and the special ones.
RulesShort == { t \in RuleTexts : t \in RulesSpecial \/ Len(t) <= 2 }

IsShortRule(rr) ==
    IF rr = <<>> THEN TRUE
    ELSE IF ~IsSome(rr[1].value) THEN TRUE
    ELSE Unwrap(rr[1].value) \in RulesShort

IsSlowRule(rr) ==
    IF rr = <<>> THEN FALSE
    ELSE IF ~IsSome(rr[1].value) THEN FALSE
    ELSE Unwrap(rr[1].value) \in RulesWithFreq /\ IsSlow(Unwrap(rr[1].value))

\* One component: every rule text with the horizon of the test, the short
\* texts with the two nearer horizons, the monthly and yearly ones with a
\* horizon a year away.
InitSingle ==
    \E sd \in {SeedA, SeedC, SeedD, SeedE}, rr \in RRuleProps :
        /\ data = <<Block(<<Component(sd, rr, Summary("Test"))>>)>>
        /\ offset \in TargetOffsets
        /\ \/ limit = HorizonTest
           \/ /\ IsShortRule(rr)
              /\ limit \in {HorizonAtSeed, HorizonUtc}
           \/ /\ IsSlowRule(rr)
              /\ sd # SeedE
              /\ limit = HorizonFar

\* Two components.
InitPair ==
    /\ data \in PairCalendars
    /\ offset \in TargetOffsets
    /\ limit = HorizonTest

Init ==
    /\ (InitSingle \/ InitPair)
    /\ pc = "parser"
    /\ bi = 0
    /\ ci = 0
    /\ gen = [next |-> None, rrule |-> None, k |-> 0]
    /\ item = None
    /\ evs = <<>>
    /\ origin = <<>>
    /\ cev = None
    /\ cdate = 0
    /\ cres = None
    /\ dprop = None
    /\ dres = None
    /\ OtherIdle

Next == ParserNext \/ MakeEvent \/ Pull \/ TakeWhile \/ Sort

Spec == Init /\ [][Next]_vars

\* Termination is checked on the calendars of one component whose rule is
\* FREQ with INTERVAL, COUNT and UNTIL pairs, under the horizon of the test.
RulesBounding ==
    { t \in RulesWithFreq :
        \A i \in 2..Len(t) : t[i] \in IntervalSegs \cup CountSegs \cup UntilSegs }

InitBounding ==
    /\ \E sd \in {SeedA, SeedD}, t \in RulesBounding :
          data = <<Block(<<Component(sd, RRule(t), Summary("Test"))>>)>>
    /\ offset \in TargetOffsets
    /\ limit = HorizonTest
    /\ pc = "parser"
    /\ bi = 0
    /\ ci = 0
    /\ gen = [next |-> None, rrule |-> None, k |-> 0]
    /\ item = None
    /\ evs = <<>>
    /\ origin = <<>>
    /\ cev = None
    /\ cdate = 0
    /\ cres = None
    /\ dprop = None
    /\ dres = None
    /\ OtherIdle

\* The call runs on: a step that can be taken is taken.
FairSpec == InitBounding /\ [][Next]_vars /\ WF_vars(Next)

\* What the cap on evs leaves out: only pushes of a generator that hands
\* back the event and the rule it was given, which no number of further
\* pulls would end.
CapOnlyWhenStuck ==
    (pc = "take_while" /\ Len(evs) = MaxEvents /\ take_while_pred(Unwrap(item), limit)) =>
        /\ gen.next = item
        /\ IsSome(gen.rrule)
        /\ LET n == RepeatRule_next(Unwrap(gen.rrule), Unwrap(gen.next))
           IN  /\ ~n.panic
               /\ n.rule = Unwrap(gen.rrule)
               /\ n.ev = gen.next

-----------------------------------------------------------------------------
(* Event::covers on its own: any event, any date.                          *)

\* Dates and times the covers check draws from.
CoverDays == 3

CoverBase == FromCivil(2024, 2, 27)

CoverTimes ==
    { ODT(CoverBase + d, tod, off) :
        d \in 0..CoverDays, tod \in {0, 86399}, off \in {0, 36000, -18000} }

InitCovers ==
    /\ \E s \in CoverTimes, e \in CoverTimes : cev = Event("E", s, e)
    /\ cdate \in (CoverBase - 1)..(CoverBase + CoverDays + 1)
    /\ cres = None
    /\ dprop = None
    /\ dres = None
    /\ OtherIdle
    /\ pc = "covers"
    /\ data = <<>>
    /\ offset = 0
    /\ limit = ODT(0, 0, 0)
    /\ bi = 0
    /\ ci = 0
    /\ gen = [next |-> None, rrule |-> None, k |-> 0]
    /\ item = None
    /\ evs = <<>>
    /\ origin = <<>>

\* ev.covers(date)
CoversCall ==
    /\ pc = "covers"
    /\ cres' = Some(covers(cev, cdate))
    /\ pc' = "covered"
    /\ UNCHANGED <<data, offset, limit, bi, ci, gen, item, evs, origin, cev, cdate, dprop, dres>>
    /\ UNCHANGED otherVars

NextCovers == CoversCall

SpecCovers == InitCovers /\ [][NextCovers]_vars

-----------------------------------------------------------------------------
(* PropParser::datetime on its own: one property, any value, any zone      *)
(* parameter, any target offset.                                           *)

\* The last year the values are drawn from; the first is 2024.
ResolveYear == 2024

ResolveDays == {1, 15, 28, 29, 30, 31}

ResolveTimes == { <<0, 0, 0>>, <<10, 0, 0>>, <<23, 59, 59>> }

ResolveTexts ==
    { DateTimeText(y, m, d, t[1], t[2], t[3]) :
        y \in 2024..ResolveYear, m \in 1..12, d \in ResolveDays, t \in ResolveTimes }
    \cup { DateText(y, m, d) : y \in 2024..ResolveYear, m \in 1..12, d \in ResolveDays }
    \cup { OffsetText(2024, m, 15, 10, 0, 0, off) : m \in {1, 6}, off \in {0, -18000} }
    \cup { BadText }

ResolveParams ==
    { NoParams, TzBrisbane, TzSydney, TzParis, ValueDate,
      ValueDate \o TzBrisbane, TzSydney \o ValueDate,
      << <<"VALUE", <<"DATE-TIME">> >> >> }

ResolveOffsets == {36000, 0, -18000}

InitDatetime ==
    /\ \E val \in ResolveTexts, ps \in ResolveParams :
          dprop = Property("DTSTART", Some(val), ps)
    /\ offset \in ResolveOffsets
    /\ dres = None
    /\ OtherIdle
    /\ pc = "datetime"
    /\ data = <<>>
    /\ limit = HorizonTest
    /\ bi = 0
    /\ ci = 0
    /\ gen = [next |-> None, rrule |-> None, k |-> 0]
    /\ item = None
    /\ evs = <<>>
    /\ origin = <<>>
    /\ cev = None
    /\ cdate = 0
    /\ cres = None

\* props.datetime("DTSTART", offset) on a component holding the property
DatetimeCall ==
    /\ pc = "datetime"
    /\ dres' = datetime(<<dprop>>, "DTSTART", offset)
    /\ pc' = "resolved"
    /\ UNCHANGED <<data, offset, limit, bi, ci, gen, item, evs, origin, cev, cdate, cres,
                   dprop>>
    /\ UNCHANGED otherVars

NextDatetime == DatetimeCall

SpecDatetime == InitDatetime /\ [][NextDatetime]_vars

-----------------------------------------------------------------------------
(* parse_by_day on its own inputs: calendars of one component whose rule is *)
(* FREQ and one BYDAY pair, the BYDAY text made of an optional sign, an     *)
(* optional ordinal and a weekday code, well-formed or not.                 *)

\* The weekday codes of parse_weekday, Monday first.
WeekdayCodes ==
    << <<"M", "O">>, <<"T", "U">>, <<"W", "E">>, <<"T", "H">>, <<"F", "R">>,
       <<"S", "A">>, <<"S", "U">> >>

ByDaySigns == { <<>>, <<"-">>, <<"+">> }

ByDayOrdinals == { <<>>, <<"1", "2">> } \cup { <<Digits[i]>> : i \in 1..10 }

ByDayCodes ==
    { WeekdayCodes[i] : i \in 1..7 } \cup { <<"X", "X">>, <<"S">>, <<"s", "u">>, <<>> }

ByDayTexts == { sg \o n \o c : sg \in ByDaySigns, n \in ByDayOrdinals, c \in ByDayCodes }

InitByDay ==
    /\ \E f \in {"WEEKLY", "MONTHLY"}, val \in ByDayTexts :
          data = <<Block(<<Component(SeedA, RRule(<< <<"FREQ", f>>, <<"BYDAY", val>> >>),
                                     Summary("Test"))>>)>>
    /\ offset \in TargetOffsets
    /\ limit = HorizonTest
    /\ pc = "parser"
    /\ bi = 0
    /\ ci = 0
    /\ gen = [next |-> None, rrule |-> None, k |-> 0]
    /\ item = None
    /\ evs = <<>>
    /\ origin = <<>>
    /\ cev = None
    /\ cdate = 0
    /\ cres = None
    /\ dprop = None
    /\ dres = None
    /\ OtherIdle

SpecByDay == InitByDay /\ [][Next]_vars

-----------------------------------------------------------------------------
(* RepeatRule::parse on its own inputs: calendars of one component whose    *)
(* rule is up to three pairs of different keys in every order, FREQ among   *)
(* them or not, known or not, other values well-formed or not, and a key    *)
(* the parser does not know.                                                *)

OrderSegs ==
    { <<"FREQ", "DAILY">>, <<"FREQ", "HOURLY">>,
      <<"INTERVAL", <<"2">> >>, <<"INTERVAL", <<"x">> >>,
      <<"COUNT", <<"2">> >>,
      <<"UNTIL", DateText(2024, 2, 3)>>,
      <<"BYDAY", <<"S", "A">> >>,
      <<"BYMONTHDAY", <<"1", "5">> >>,
      <<"WKST", "SU">> }

DistinctKeys(t) == \A i, j \in 1..Len(t) : i # j => t[i][1] # t[j][1]

OrderTexts ==
    { t \in {<<>>} \cup { <<a>> : a \in OrderSegs }
                   \cup { <<a, b>> : a, b \in OrderSegs }
                   \cup { <<a, b, c>> : a, b, c \in OrderSegs } : DistinctKeys(t) }

InitOrder ==
    /\ \E t \in OrderTexts :
          data = <<Block(<<Component(SeedA, RRule(t), Summary("Test"))>>)>>
    /\ offset \in TargetOffsets
    /\ limit = HorizonTest
    /\ pc = "parser"
    /\ bi = 0
    /\ ci = 0
    /\ gen = [next |-> None, rrule |-> None, k |-> 0]
    /\ item = None
    /\ evs = <<>>
    /\ origin = <<>>
    /\ cev = None
    /\ cdate = 0
    /\ cres = None
    /\ dprop = None
    /\ dres = None
    /\ OtherIdle

SpecOrder == InitOrder /\ [][Next]_vars

-----------------------------------------------------------------------------
(* The month grid (src/app/layout.rs): Month::render sorts the events of    *)
(* all calendars by start and draws one cell per day of the weeks of the    *)
(* month, shrinking the slice of events it hands to the cells as it goes.   *)

\* The calendar core is not running.
CalIdle ==
    /\ data = <<>>
    /\ offset = 0
    /\ limit = ODT(0, 0, 0)
    /\ pc = "idle"
    /\ bi = 0
    /\ ci = 0
    /\ gen = [next |-> None, rrule |-> None, k |-> 0]
    /\ item = None
    /\ evs = <<>>
    /\ origin = <<>>
    /\ cev = None
    /\ cdate = 0
    /\ cres = None
    /\ dprop = None
    /\ dres = None

\* layout.rs: week_start
week_start(date) == IF weekday(date) = 0 THEN date ELSE prev_occurrence(date, 0)

\* layout.rs: week_end
week_end(date) == IF weekday(date) = 6 THEN date ELSE next_occurrence(date, 6)

\* layout.rs: end_of_month
end_of_month(date) ==
    Unwrap(replace_day(date, days_in_year_month(Civil(date).y, Civil(date).m)))

\* The first and the last day of the grid Month::render walks.
grid_start(now) == week_start(Unwrap(replace_day(now, 1)))

grid_end(now) == week_end(end_of_month(now))

RECURSIVE flatten(_)
\* model.cals.values().flatten()
flatten(cs) == IF cs = <<>> THEN <<>> ELSE Head(cs) \o flatten(Tail(cs))

\* evs.sort_by(|a, b| a.start.cmp(&b.start)), a stable sort
sort_by_start(es) == [p \in 1..Len(es) |-> es[sort_order(es)[p]]]

remove_earlier_events_m(es, before) ==
    LET hits == { i \in 1..Len(es) : es[i].start.date >= before }
    IN  IF hits = {} THEN <<>>
        ELSE SubSeq(es, CHOOSE i \in hits : \A j \in hits : i <= j, Len(es))

\* layout.rs: remove_earlier_events: the slice from the first event that
\* starts on or after `before` or covers it.
remove_earlier_events(es, before) ==
    LET hits == { i \in 1..Len(es) : es[i].start.date >= before \/ covers(es[i], before) }
    IN  IF hits = {} THEN <<>>
        ELSE SubSeq(es, CHOOSE i \in hits : \A j \in hits : i <= j, Len(es))

\* evs.iter().take_while(|x| x.start.date() <= day)
cell_take_while(es, d) ==
    LET stops == { i \in 1..Len(es) : es[i].start.date > d }
    IN  IF stops = {} THEN es
        ELSE SubSeq(es, 1, (CHOOSE i \in stops : \A j \in stops : i <= j) - 1)

\* CellWidget::day_cell: the events it draws a line for, in order.
day_cell(es, d) ==
    LET Shown(e) == covers(e, d)
    IN  SelectSeq(cell_take_while(es, d), Shown)

\* The month drawn: February 2024, whose grid runs from Monday January 29 to
\* Sunday March 3.
MonthNow == FromCivil(2024, 2, 15)

\* The day before the grid begins.
MonthBase == grid_start(MonthNow) - 1

\* Events around the beginning of the grid, all at +10: every start and end
\* date over a few days (an end before the start among them), and two events
\* that start in the same night seen from offsets twenty hours apart.
MonthEvents ==
    { Event("E", ODT(MonthBase + ds, 8 * 3600, 36000), ODT(MonthBase + de, 9 * 3600, 36000)) :
        ds \in 0..2, de \in 0..3 }
    \cup { Event("W", ODT(MonthBase + 1, 23 * 3600, 0 - 36000),
                      ODT(MonthBase + 1, 23 * 3600 + 1800, 0 - 36000)) }

\* model.cals: up to three events in one calendar or in two.
MonthCalendars ==
    { <<>> }
    \cup { <<<<a>>>> : a \in MonthEvents }
    \cup { <<<<a, b>>>> : a, b \in MonthEvents }
    \cup { <<<<a>>, <<b>>>> : a, b \in MonthEvents }
    \cup { <<<<a, b, c>>>> : a, b, c \in MonthEvents }
    \cup { <<<<a>>, <<b, c>>>> : a, b, c \in MonthEvents }

InitMonth ==
    /\ cals \in MonthCalendars
    /\ layout_now = MonthNow
    /\ month_evs = <<>>
    /\ month_slice = <<>>
    /\ month_day = None
    /\ cell = None
    /\ mpc = "render"
    /\ CalIdle
    /\ DispatchIdle
    /\ FetchIdle
    /\ DriverIdle

\* let mut evs = model.cals.values().flatten().collect(); evs.sort_by(..);
\* let start = ..; let end = ..; let mut evs = evs.as_slice();
MonthSort ==
    /\ mpc = "render"
    /\ month_evs' = sort_by_start(flatten(cals))
    /\ month_slice' = month_evs'
    /\ month_day' = Some(grid_start(layout_now))
    /\ mpc' = "days"
    /\ UNCHANGED <<cals, layout_now, cell>>
    /\ UNCHANGED notMonthVars

\* One day of the loop over the weeks: evs = remove_earlier_events(evs, day);
\* cell.day_cell(ui, evs)
MonthCell ==
    /\ mpc = "days"
    /\ LET d == Unwrap(month_day)
       IN  /\ month_slice' = remove_earlier_events(month_slice, d)
           /\ cell' = Some([day |-> d, evs |-> day_cell(month_slice', d)])
           /\ IF d < grid_end(layout_now)
              THEN month_day' = Some(next_day(d)) /\ mpc' = "days"
              ELSE month_day' = None /\ mpc' = "done"
    /\ UNCHANGED <<cals, layout_now, month_evs>>
    /\ UNCHANGED notMonthVars

NextMonth == MonthSort \/ MonthCell

SpecMonth == InitMonth /\ [][NextMonth]_vars

-----------------------------------------------------------------------------
(* The dispatcher (src/app/state.rs): tasks hand closures over the state to *)
(* one receiving loop through an mpsc channel and await the closure's value *)
(* on a oneshot channel of their own.                                       *)

\* channel(1024)
ChannelCapacity == 1024

\* The calls of run followed in one behaviour.
MaxRuns == 4

StateModulus == 5

\* The closures handed to run: each turns the state s into mul * s + add and
\* returns the state it saw together with the state it left.
Closures == { [mul |-> 2, add |-> 1], [mul |-> 0, add |-> 3] }

call(f, s) == (f.mul * s + f.add) % StateModulus

InitDispatch ==
    /\ state \in {0, 1}
    /\ chan = <<>>
    /\ run_pc = [t \in Tasks |-> "idle"]
    /\ oneshot = [t \in Tasks |-> None]
    /\ run_out = [t \in Tasks |-> None]
    /\ entered = <<>>
    /\ applied = <<>>
    /\ CalIdle
    /\ MonthIdle
    /\ FetchIdle
    /\ DriverIdle

\* Dispatch::run up to the first await that completes: the oneshot channel
\* is made and the boxed closure enters the channel.
RunSend(t, f) ==
    /\ run_pc[t] = "idle"
    /\ Len(entered) < MaxRuns
    /\ Len(chan) < ChannelCapacity
    /\ chan' = Append(chan, [task |-> t, f |-> f])
    /\ entered' = Append(entered, [task |-> t, f |-> f])
    /\ run_pc' = [run_pc EXCEPT ![t] = "sent"]
    /\ oneshot' = [oneshot EXCEPT ![t] = None]
    /\ UNCHANGED <<state, run_out, applied>>
    /\ UNCHANGED notDispatchVars

RecvLoop_m ==
    /\ chan # <<>>
    /\ LET cb == chan[Len(chan)]
       IN  /\ state' = call(cb.f, state)
           /\ oneshot' = [oneshot EXCEPT ![cb.task] = Some(<<state, state'>>)]
           /\ applied' = Append(applied, [task |-> cb.task, f |-> cb.f,
                                          before |-> state, after |-> state'])
    /\ chan' = SubSeq(chan, 1, Len(chan) - 1)
    /\ UNCHANGED <<run_pc, run_out, entered>>
    /\ UNCHANGED notDispatchVars

\* recv_loop: while let Some(f) = recv.recv().await { f(&mut state) }, f being
\* the cb of run: tx.send(f(state))
RecvLoop ==
    /\ chan # <<>>
    /\ LET cb == Head(chan)
       IN  /\ state' = call(cb.f, state)
           /\ oneshot' = [oneshot EXCEPT ![cb.task] = Some(<<state, state'>>)]
           /\ applied' = Append(applied, [task |-> cb.task, f |-> cb.f,
                                          before |-> state, after |-> state'])
    /\ chan' = Tail(chan)
    /\ UNCHANGED <<run_pc, run_out, entered>>
    /\ UNCHANGED notDispatchVars

\* rx.await.expect("should receive a value"): run returns
RunReturn(t) ==
    /\ run_pc[t] = "sent"
    /\ IsSome(oneshot[t])
    /\ run_out' = [run_out EXCEPT ![t] = oneshot[t]]
    /\ run_pc' = [run_pc EXCEPT ![t] = "idle"]
    /\ UNCHANGED <<state, chan, oneshot, entered, applied>>
    /\ UNCHANGED notDispatchVars

NextDispatch ==
    \/ \E t \in Tasks, f \in Closures : RunSend(t, f)
    \/ RecvLoop
    \/ \E t \in Tasks : RunReturn(t)

SpecDispatch == InitDispatch /\ [][NextDispatch]_vars

-----------------------------------------------------------------------------
(* fetch_loop and fetch_iteration (src/app/main.rs): every tick of the      *)
(* timer the calendars are downloaded and parsed, weather and lunar data    *)
(* are requested when the model's copies are old, and the model is updated  *)
(* in one dispatched closure. clock_loop sets layout.now meanwhile.         *)

\* Duration::from_secs(61), the period of fetch_loop's timer
FetchEvery == 61

\* Duration::from_secs(60 * 10)
WeatherEvery == 600

\* Duration::from_secs(60 * 60 * 12)
MoonEvery == 43200

\* The iterations followed in one behaviour.
MaxIterations == 3

\* How long after its deadline the timer's tick is seen.
Lateness == {0, WeatherEvery, MoonEvery}

\* How long a request takes.
Latency == {1}

Outcomes == {"ok", "err"}

Later(a, b) == IF a >= b THEN a ELSE b

\* model.weather / model.moon .as_ref().map(|x| Instant::now()
\*   .duration_since(x.last_update) > every).unwrap_or(true)
is_due(opt, every) ==
    IF IsSome(opt) THEN clock - Unwrap(opt).last_update > every ELSE TRUE

RECURSIVE insert_all(_, _)
\* for (key, cal) in cals { model.cals.insert(key.to_string(), cal) }
insert_all(m, cs) ==
    IF cs = <<>> THEN m
    ELSE insert_all([m EXCEPT ![Head(cs)[1]] = Some(Head(cs)[2])], Tail(cs))

update_model_m(m, cs, w, mn) ==
    [cals |-> insert_all(m.cals, cs), weather |-> w, moon |-> mn]

\* The closure of the last dispatch.run of fetch_iteration.
update_model(m, cs, w, mn) ==
    [cals |-> insert_all(m.cals, cs),
     weather |-> IF IsSome(w) THEN w ELSE m.weather,
     moon |-> IF IsSome(mn) THEN mn ELSE m.moon]

InitFetch ==
    /\ shared = [model |-> Model_default, layout |-> [now |-> 0]]
    /\ clock = 0
    /\ deadline = 0
    /\ fpc = "begin"
    /\ fci = 0
    /\ snap = None
    /\ fcals = <<>>
    /\ fweather = None
    /\ fmoon = None
    /\ fres = None
    /\ fiter = 0
    /\ model0 = None
    /\ wreq = <<>>
    /\ mreq = <<>>
    /\ CalIdle
    /\ MonthIdle
    /\ DispatchIdle
    /\ DriverIdle

\* clock_loop: s.layout.now = OffsetDateTime::now_utc().to_offset(offset)
ClockLoop ==
    /\ fpc # "off"
    /\ shared.layout.now # clock
    /\ shared' = [shared EXCEPT !.layout.now = clock]
    /\ UNCHANGED <<clock, deadline, fpc, fci, snap, fcals, fweather, fmoon,
                   fres, fiter, model0, wreq, mreq>>
    /\ UNCHANGED notFetchVars

\* fetch_iteration: dispatch.run(|state| (state.model.clone(), state.layout.now))
FetchBegin ==
    /\ fpc = "begin"
    /\ fiter < MaxIterations
    /\ snap' = Some([model |-> shared.model, now |-> shared.layout.now])
    /\ model0' = Some(shared.model)
    /\ fcals' = <<>>
    /\ fweather' = None
    /\ fmoon' = None
    /\ fres' = None
    /\ fci' = 0
    /\ fiter' = fiter + 1
    /\ fpc' = IF Len(Calendars) = 0 THEN "weather" ELSE "cals"
    /\ UNCHANGED <<shared, clock, deadline, wreq, mreq>>
    /\ UNCHANGED notFetchVars

\* One turn of `for (name, url) in calendars`: fetch::string and parse_ical,
\* an error returning from the iteration; parse_ical can also panic, which
\* ends the task. What is downloaded changes from one iteration to the next.
FetchCalendar(out) ==
    /\ fpc = "cals"
    /\ CASE out = "ok" ->
              /\ fcals' = Append(fcals, <<Calendars[fci + 1], fiter>>)
              /\ fci' = fci + 1
              /\ fpc' = IF fci + 1 = Len(Calendars) THEN "weather" ELSE "cals"
              /\ UNCHANGED fres
         [] out = "err" ->
              /\ fres' = Some("Err")
              /\ fpc' = "tick"
              /\ UNCHANGED <<fcals, fci>>
         [] out = "panic" ->
              /\ fpc' = "dead"
              /\ UNCHANGED <<fcals, fci, fres>>
    /\ UNCHANGED <<shared, clock, deadline, snap, fweather, fmoon, fiter,
                   model0, wreq, mreq>>
    /\ UNCHANGED notFetchVars

\* The weather block: a request to open-meteo when the snapshot holds no
\* weather or one older than ten minutes.
FetchWeather(out, d) ==
    /\ fpc = "weather"
    /\ IF is_due(Unwrap(snap).model.weather, WeatherEvery)
       THEN /\ wreq' = Append(wreq, clock)
            /\ clock' = clock + d
            /\ IF out = "ok"
               THEN /\ fweather' = Some([last_update |-> clock'])
                    /\ fpc' = "moon"
                    /\ UNCHANGED fres
               ELSE /\ fres' = Some("Err")
                    /\ fpc' = "tick"
                    /\ UNCHANGED fweather
       ELSE /\ fpc' = "moon"
            /\ UNCHANGED <<wreq, clock, fweather, fres>>
    /\ UNCHANGED <<shared, deadline, fci, snap, fcals, fmoon, fiter, model0, mreq>>
    /\ UNCHANGED notFetchVars

\* The lunar block: a request to stormglass when the snapshot holds no lunar
\* calendar or one older than half a day.
FetchMoon(out, d) ==
    /\ fpc = "moon"
    /\ IF is_due(Unwrap(snap).model.moon, MoonEvery)
       THEN /\ mreq' = Append(mreq, clock)
            /\ clock' = clock + d
            /\ IF out = "ok"
               THEN /\ fmoon' = Some([last_update |-> clock'])
                    /\ fpc' = "update"
                    /\ UNCHANGED fres
               ELSE /\ fres' = Some("Err")
                    /\ fpc' = "tick"
                    /\ UNCHANGED fmoon
       ELSE /\ fpc' = "update"
            /\ UNCHANGED <<mreq, clock, fmoon, fres>>
    /\ UNCHANGED <<shared, deadline, fci, snap, fcals, fweather, fiter, model0, wreq>>
    /\ UNCHANGED notFetchVars

\* drop(model) and the dispatched update; Ok(())
FetchUpdate ==
    /\ fpc = "update"
    /\ shared' = [shared EXCEPT
                    !.model = update_model(shared.model, fcals, fweather, fmoon)]
    /\ fres' = Some("Ok")
    /\ fpc' = "tick"
    /\ UNCHANGED <<clock, deadline, fci, snap, fcals, fweather, fmoon, fiter,
                   model0, wreq, mreq>>
    /\ UNCHANGED notFetchVars

\* fetch_loop: log_error on Err, then timer.tick().await; the first tick of
\* interval() is due at once, a late one delays the following ones.
FetchTick(late) ==
    /\ fpc = "tick"
    /\ clock' = Later(clock, deadline) + late
    /\ deadline' = clock' + FetchEvery
    /\ fpc' = "begin"
    /\ UNCHANGED <<shared, fci, snap, fcals, fweather, fmoon, fres, fiter,
                   model0, wreq, mreq>>
    /\ UNCHANGED notFetchVars

NextFetch ==
    \/ ClockLoop
    \/ FetchBegin
    \/ \E out \in Outcomes \cup {"panic"} : FetchCalendar(out)
    \/ \E out \in Outcomes, d \in Latency : FetchWeather(out, d)
    \/ \E out \in Outcomes, d \in Latency : FetchMoon(out, d)
    \/ FetchUpdate
    \/ \E late \in Lateness : FetchTick(late)

SpecFetch == InitFetch /\ [][NextFetch]_vars

\* The last calendar fetch_iteration collected under the name n, if any.
Fetched(n) ==
    LET hits == { i \in 1..Len(fcals) : fcals[i][1] = n }
    IN  IF hits = {} THEN None
        ELSE Some(fcals[CHOOSE i \in hits : \A j \in hits : j <= i][2])

\* C36: fetch_iteration updates the model all-or-nothing. While an iteration
\* is under way, and after it returned an error (or its task ended), the
\* shared model is the one the iteration began with; after it returned Ok
\* every calendar fetched is in the model, every other entry is as before,
\* weather and moon are the fetched ones when they were re-fetched and as
\* before otherwise; and no step of the iteration changes the layout.
C36_AllOrNothing ==
    /\ []((fpc \in {"cals", "weather", "moon", "update", "dead"} \/ fres = Some("Err"))
            => Some(shared.model) = model0)
    /\ [](fres = Some("Ok") =>
            /\ \A n \in CalendarNames :
                  Some(shared.model.cals[n]) =
                      IF IsSome(Fetched(n)) THEN Some(Fetched(n))
                      ELSE IF IsSome(model0) THEN Some(Unwrap(model0).cals[n])
                      ELSE None
            /\ Some(shared.model.weather) =
                  IF IsSome(fweather) THEN Some(fweather)
                  ELSE IF IsSome(model0) THEN Some(Unwrap(model0).weather)
                  ELSE None
            /\ Some(shared.model.moon) =
                  IF IsSome(fmoon) THEN Some(fmoon)
                  ELSE IF IsSome(model0) THEN Some(Unwrap(model0).moon)
                  ELSE None)
    /\ [][fpc' # fpc => shared'.layout = shared.layout]_vars

\* An iteration failed at the lunar request after it had downloaded the
\* calendars and re-fetched the weather, the model holding the results of an
\* earlier iteration.
C36_Witness ==
    /\ fres = Some("Err")
    /\ Len(fcals) = Len(Calendars)
    /\ IsSome(fweather)
    /\ IsSome(model0)
    /\ model0 # Some(Model_default)
    /\ Some(shared.model) = model0
    /\ shared.layout.now # 0

\* C37: across any sequence of fetch iterations, successful or failed, two
\* consecutive weather requests are more than ten minutes apart and two
\* consecutive lunar requests more than twelve hours apart.
C37_RequestsSpaced ==
    /\ \A i \in 2..Len(wreq) : wreq[i] - wreq[i - 1] > WeatherEvery
    /\ \A i \in 2..Len(mreq) : mreq[i] - mreq[i - 1] > MoonEvery

-----------------------------------------------------------------------------
(* The screen driver (src/app/main.rs): push_bitmap writes one line per     *)
(* frame to the stdin of the it8951-driver process, asks for a full refresh *)
(* now and then, and restarts the process after a number of frames or a     *)
(* write that timed out. render_loop is its only caller.                    *)

\* The calls one driver process is followed through.
MaxAttempts == 185

\* The driver processes followed in one behaviour.
MaxDrivers == 3

\* ScreenDriver::start: a new process, count: 0, reset_count: 0
ScreenDriver_start(id) ==
    [id |-> id, alive |-> TRUE, count |-> 0, reset_count |-> 0]

build_line_m(count, old) ==
    IF count >= 10
    THEN [count |-> 0, high |-> TRUE, low |-> FALSE]
    ELSE [count |-> count, high |-> FALSE, low |-> old]

\* push_bitmap: the line for the counter as incremented: --high and a
\* counter back at 0 past 10, else --low with the old frame if there is one.
build_line(count, old) ==
    IF count > 10
    THEN [count |-> 0, high |-> TRUE, low |-> FALSE]
    ELSE [count |-> count, high |-> FALSE, low |-> old]

\* start_it8951_driver has run
InitDriver ==
    /\ driver = Some(ScreenDriver_start(1))
    /\ attempts = 0
    /\ line = None
    /\ push_res = None
    /\ CalIdle
    /\ MonthIdle
    /\ DispatchIdle
    /\ FetchIdle

\* push_bitmap(img, old): old tells whether a previous frame is given, w is
\* what the write to the driver's stdin does within the 60 s, k and st
\* whether kill and ScreenDriver::start succeed.
PushBitmap(old, w, k, st) ==
    /\ IsSome(driver)
    /\ attempts < MaxAttempts
    /\ LET child == Unwrap(driver)
           built == build_line((child.count + 1) % 256, old)
           counted == [child EXCEPT !.count = built.count,
                                    !.reset_count = (child.reset_count + 1) % 65536]
           reset == w = "timeout"
       IN  /\ child.alive \/ w = "err"
           /\ line' = Some([id |-> child.id, n |-> attempts + 1, old |-> old,
                            high |-> built.high, low |-> built.low])
           /\ IF w = "err"
              THEN \* res? returns the error of the write
                   /\ driver' = Some(counted)
                   /\ attempts' = attempts + 1
                   /\ push_res' = Some("Err")
              ELSE IF counted.reset_count > 180 \/ reset
              THEN IF k = "err"
                   THEN /\ driver' = Some(counted)
                        /\ attempts' = attempts + 1
                        /\ push_res' = Some("Err")
                   ELSE IF st = "err"
                   THEN /\ driver' = Some([counted EXCEPT !.alive = FALSE])
                        /\ attempts' = attempts + 1
                        /\ push_res' = Some("Err")
                   ELSE /\ child.id < MaxDrivers
                        /\ driver' = Some(ScreenDriver_start(child.id + 1))
                        /\ attempts' = 0
                        /\ push_res' = Some("Ok")
              ELSE /\ driver' = Some(counted)
                   /\ attempts' = attempts + 1
                   /\ push_res' = Some("Ok")
    /\ UNCHANGED notDriverVars

NextDriver ==
    \E old \in BOOLEAN, w \in {"ok", "err", "timeout"}, k \in Outcomes, st \in Outcomes :
        PushBitmap(old, w, k, st)

SpecDriver == InitDriver /\ [][NextDriver]_vars

\* C38: after any sequence of push_bitmap calls, calls whose write to the
\* driver's stdin returns an error included, the current driver process has
\* received no more than 181 push attempts since it was started.
C38_ReplacedInTime == attempts <= 181

\* C39: after every call of push_bitmap count is between 0 and 10; for one
\* driver process exactly every 11th push carries --high, count being 0
\* after it, and every other push carries --low with the previous frame
\* exactly when there is one; a driver just started has count and
\* reset_count at 0.
C39_CounterPeriodic ==
    IsSome(driver) =>
        /\ Unwrap(driver).count \in 0..10
        /\ Unwrap(driver).count = attempts % 11
        /\ attempts = 0 => Unwrap(driver).count = 0 /\ Unwrap(driver).reset_count = 0
        /\ IsSome(line) =>
              /\ Unwrap(line).high <=> Unwrap(line).n % 11 = 0
              /\ Unwrap(line).high => ~Unwrap(line).low /\ Unwrap(driver).count = 0
              /\ ~Unwrap(line).high => (Unwrap(line).low <=> Unwrap(line).old)

\* The second full refresh of a driver process that replaced an earlier one.
C39_Witness ==
    /\ IsSome(driver)
    /\ IsSome(line)
    /\ Unwrap(driver).id >= 2
    /\ Unwrap(line).id = Unwrap(driver).id
    /\ Unwrap(line).high
    /\ Unwrap(line).n = 22
    /\ push_res = Some("Ok")

\* The place in applied of the last closure of task t that recv_loop ran.
LastApplied(t) ==
    CHOOSE i \in 1..Len(applied) :
        /\ applied[i].task = t
        /\ \A j \in 1..Len(applied) : applied[j].task = t => j <= i

\* C35: the closures submitted through Dispatch::run by concurrent tasks are
\* run on the shared state one at a time, each once, in the order they
\* entered the channel: what recv_loop has run is a prefix of what entered,
\* what it has not run is still in the channel in that order, each closure
\* saw the state the one before it left, and a call of run that has returned
\* returned the value of its own closure.
C35_Serialized ==
    /\ Len(applied) <= Len(entered)
    /\ \A i \in 1..Len(applied) :
          /\ applied[i].task = entered[i].task
          /\ applied[i].f = entered[i].f
          /\ applied[i].after = call(entered[i].f, applied[i].before)
          /\ i > 1 => applied[i].before = applied[i - 1].after
    /\ applied # <<>> => state = applied[Len(applied)].after
    /\ chan = [i \in 1..(Len(entered) - Len(applied)) |->
                 entered[Len(applied) + i]]
    /\ \A t \in Tasks :
          (run_pc[t] = "idle" /\ IsSome(run_out[t])) =>
              /\ \E i \in 1..Len(applied) : applied[i].task = t
              /\ run_out[t] = Some(<<applied[LastApplied(t)].before,
                                     applied[LastApplied(t)].after>>)

\* Two closures of different tasks wait in the channel together while a
\* third task already has the value of its own closure.
C35_Witness ==
    /\ Len(chan) >= 2
    /\ chan[1].task # chan[2].task
    /\ chan[1].f # chan[2].f
    /\ \E t \in Tasks : run_pc[t] = "idle" /\ IsSome(run_out[t])

-----------------------------------------------------------------------------
(* Properties.                                                             *)

Terminal == pc \in {"Ok", "Err", "panic"}

AllBlocksOk == \A b \in 1..Len(data) : data[b].ok

\* The components of the input, as <<block, component>> positions.
Positions == { <<b, c>> : b \in 1..Len(data), c \in 1..2 } \cap
             { bc \in (1..Len(data)) \X (1..2) : bc[2] <= Len(data[bc[1]].events) }

PropsAt(bc) == data[bc[1]].events[bc[2]]

\* make_event has been called on the component at bc.
Handled(bc) == bc[1] < bi \/ (bc[1] = bi /\ bc[2] <= ci)

\* The stream of the component at bc has been drained.
Drained(bc) ==
    \/ bc[1] < bi
    \/ (bc[1] = bi /\ bc[2] < ci)
    \/ (bc[1] = bi /\ bc[2] = ci /\ pc \in {"flat_map", "parser", "sort", "Ok"})

\* Where evs holds the events of the component at bc.
IndexesOf(bc) == { i \in 1..Len(evs) : origin[i][1] = bc[1] /\ origin[i][2] = bc[2] }

Duration(ev) == Sub(ev.end, ev.start)

\* The stream of a component is being drained.
Expanding == pc \in {"successors", "take_while"}

RECURSIVE DatesFromTo(_, _)
\* The dates enumerated day by day from d up to last (tests::event_covers).
DatesFromTo(d, last) ==
    IF d > last THEN {} ELSE {d} \cup DatesFromTo(next_day(d), last)

\* C1: Event.covers(d) is true exactly when start.date() <= d <= end.date(),
\* on calendar dates alone and inclusive at both ends; equivalently when d is
\* among the dates enumerated day by day from start.date() up to end.date().
C1_CoversIffInRange ==
    pc = "covered" =>
        /\ Unwrap(cres) = (cev.start.date <= cdate /\ cdate <= cev.end.date)
        /\ Unwrap(cres) = (cdate \in DatesFromTo(cev.start.date, cev.end.date))

\* A covered date that is the event's first day, of an event spanning several
\* days whose start is later in the day than its end.
C1_Witness ==
    /\ pc = "covered"
    /\ cres = Some(TRUE)
    /\ cdate = cev.start.date
    /\ cev.start.date < cev.end.date
    /\ cev.start.tod > cev.end.tod

\* C2: whenever parse_ical returns Ok, the Calendar is non-decreasing in
\* start over its whole length, across components and blocks.
C2_ResultSorted ==
    pc = "Ok" =>
        \A i \in 1..(Len(evs) - 1) : Instant(evs[i].start) <= Instant(evs[i + 1].start)

\* An Ok result of three events or more in which an event of the second
\* component stands before one of the first.
C2_Witness ==
    /\ pc = "Ok"
    /\ Len(evs) >= 3
    /\ \E i \in 1..Len(evs), j \in 1..Len(evs) :
          /\ i < j
          /\ origin[i][2] = 2 /\ origin[j][2] = 1
          /\ Instant(evs[i].start) < Instant(evs[j].start)

\* C3: no Event parse_ical returns has start >= limit, the seed included,
\* whatever the rule (also one with neither UNTIL nor COUNT).
C3_HorizonBound ==
    \A i \in 1..Len(evs) : Instant(evs[i].start) < Instant(limit)

\* An Ok result holding a seed and a successor of a rule with neither UNTIL
\* nor COUNT, whose next occurrence was cut off at the horizon.
C3_Witness ==
    /\ pc = "Ok"
    /\ Len(evs) >= 2
    /\ IsSome(gen.rrule)
    /\ ~IsSome(Unwrap(gen.rrule).until)
    /\ ~IsSome(Unwrap(gen.rrule).count)
    /\ gen.k > Len(evs)
    /\ IsSome(gen.next)
    /\ Instant(Unwrap(gen.next).start) >= Instant(limit)

\* C4: for every rule the parser accepts and every horizon the expansion
\* ends after finitely many calls of the successor function: the stream
\* being drained is eventually left (the generator returned empty, or an
\* occurrence at or after the horizon came up).
C4_ExpansionEnds == Expanding ~> ~Expanding

\* C5: every occurrence produced by expanding a recurring event lasts as
\* long as the seed of its component: those collected, the one pulled and
\* the one the generator holds next.
C5_DurationPreserved ==
    /\ \A bc \in Positions :
          IndexesOf(bc) # {} =>
              LET d == Duration(Unwrap(first(PropsAt(bc), offset)))
              IN  \A i \in IndexesOf(bc) : Duration(evs[i]) = d
    /\ (Expanding /\ IsSome(gen.next)) =>
          Duration(Unwrap(gen.next)) =
              Duration(Unwrap(first(PropsAt(<<bi, ci>>), offset)))
    /\ pc = "take_while" =>
          Duration(Unwrap(item)) =
              Duration(Unwrap(first(PropsAt(<<bi, ci>>), offset)))

\* A third occurrence or later in the result, of a seed that ends on the
\* day after it starts.
C5_Witness ==
    /\ pc = "Ok"
    /\ \E i \in 1..Len(evs) :
          /\ origin[i][3] >= 2
          /\ Duration(evs[i]) > 0
          /\ evs[i].end.date > evs[i].start.date

\* The rule make_event obtains for the component at bc: [panic, rule].
RuleAt(bc) == rrule(PropsAt(bc), offset)

SeedAt(bc) == first(PropsAt(bc), offset)

\* The component at bc has a seed and a WEEKLY rule with a BYDAY weekday
\* selector, bounded by UNTIL and the horizon alone.
WeeklyByDay(bc) ==
    /\ IsSome(SeedAt(bc))
    /\ ~RuleAt(bc).panic
    /\ IsSome(RuleAt(bc).rule)
    /\ Unwrap(RuleAt(bc).rule).freq = "Weekly"
    /\ IsSome(Unwrap(RuleAt(bc).rule).by_day)
    /\ ~IsSome(Unwrap(RuleAt(bc).rule).count)

\* The starts a weekly rule on weekday w owes for the seed: the seed's own
\* when it is before the horizon, and the seed's time of day on every later
\* date falling on w, as long as that is before until (if any) and before
\* the horizon.
WeeklyStarts(seed, w, until, lim) ==
    LET last == to_offset(lim, seed.start.off).date
    IN  { s \in { seed.start } : Instant(s) < Instant(lim) }
        \cup
        { s \in { ODT(d, seed.start.tod, seed.start.off) :
                    d \in { x \in (seed.start.date + 1)..last : weekday(x) = w } } :
            /\ Instant(s) < Instant(lim)
            /\ (IsSome(until) => Instant(s) < Instant(Unwrap(until))) }

\* The calendar, offset and horizon of tests::event_repetition.
IsTestInput ==
    /\ data = <<Block(<<CompTest1, CompTest2>>)>>
    /\ offset = 10 * 3600
    /\ limit = HorizonTest

TestStart(d) == ODT(FromCivil(2024, 1, d), 30600, 36000)

TestStartFeb3 == ODT(FromCivil(2024, 2, 3), 30600, 36000)

\* C6: a WEEKLY rule with a BYDAY weekday yields the seed and one occurrence
\* on each later date falling on that weekday, at the seed's time of day and
\* with its duration, exactly for the starts before UNTIL (when given) and
\* before the horizon; the calendar of tests::event_repetition gives the
\* starts 01-13, 01-20, 01-27, 02-03, the first rule giving its seed only.
C6_WeeklyByDay ==
    pc = "Ok" =>
        /\ \A bc \in Positions :
              WeeklyByDay(bc) =>
                  LET seed == Unwrap(SeedAt(bc))
                      r    == Unwrap(RuleAt(bc).rule)
                      want == WeeklyStarts(seed, Unwrap(r.by_day)[1], r.until, limit)
                  IN  /\ Cardinality(IndexesOf(bc)) = Cardinality(want)
                      /\ { evs[i].start : i \in IndexesOf(bc) } = want
                      /\ \A i \in IndexesOf(bc) :
                            /\ Duration(evs[i]) = Duration(seed)
                            /\ evs[i].summary = seed.summary
        /\ IsTestInput =>
              /\ [i \in 1..Len(evs) |-> evs[i].start] =
                     <<TestStart(13), TestStart(20), TestStart(27), TestStartFeb3>>
              /\ [i \in 1..Len(evs) |-> evs[i].summary] =
                     <<"Test", "Test2", "Test2", "Test2">>
              /\ \A i \in 1..Len(evs) : Duration(evs[i]) = 3600

\* The result of tests::event_repetition.
C6_Witness ==
    /\ pc = "Ok"
    /\ IsTestInput
    /\ Len(evs) = 4
    /\ WeeklyByDay(<<1, 1>>) /\ WeeklyByDay(<<1, 2>>)
    /\ Cardinality(IndexesOf(<<1, 1>>)) = 1

\* No rule text of the input makes RepeatRule::parse panic.
RulesParse == \A bc \in Positions : ~RuleAt(bc).panic

\* C7: for every input the structural parser accepts parse_ical returns Ok:
\* nothing belonging to a single event makes the call abort.  Stated for
\* inputs all of whose rule texts parse, so that what is left is the date
\* arithmetic of RepeatRule::next.
C7_NeverAborts == (AllBlocksOk /\ RulesParse) => pc # "panic"

\* A pair of a rule text that RepeatRule::parse answers with a panic.
BadPair(seg) ==
    /\ Len(seg) = 2
    /\ \/ seg[1] \in {"INTERVAL", "COUNT"} /\ ~IsSome(parse_uint(seg[2], U32MaxText))
       \/ seg[1] = "BYMONTHDAY" /\ ~IsSome(parse_uint(seg[2], U8MaxText))
       \/ seg[1] = "UNTIL" /\ ~IsSome(try_various_untils(seg[2]))

\* The last FREQ pair of the text, if any, names no known frequency.
NoFreq(text) ==
    LET fs == { i \in 1..Len(text) : Len(text[i]) = 2 /\ text[i][1] = "FREQ" }
    IN  \/ fs = {}
        \/ \E i \in fs : (\A j \in fs : j <= i) /\ ~IsSome(Freq_parse(text[i][2]))

\* The component at bc carries a malformed recurrence rule.
MalformedRule(bc) ==
    LET p == find(PropsAt(bc), "RRULE")
    IN  /\ IsSome(p)
        /\ IsSome(Unwrap(p).value)
        /\ LET text == Unwrap(Unwrap(p).value)
           IN  NoFreq(text) \/ \E i \in 1..Len(text) : BadPair(text[i])

\* C8: a malformed recurrence rule costs the rule alone: the call goes on
\* past the component, and once its stream is drained the event is there
\* exactly once, as the seed (when the seed is before the horizon).
C8_MalformedRuleKeepsEvent ==
    \A bc \in Positions :
        (MalformedRule(bc) /\ Handled(bc)) =>
            /\ ~(pc = "panic" /\ bc = <<bi, ci>>)
            /\ (Drained(bc) /\ IsSome(SeedAt(bc))
                  /\ Instant(Unwrap(SeedAt(bc)).start) < Instant(limit)) =>
                  \E i \in 1..Len(evs) :
                      /\ IndexesOf(bc) = {i}
                      /\ evs[i] = Unwrap(SeedAt(bc))

\* C9: a component whose SUMMARY, DTSTART or DTEND is missing, without value
\* or unparseable contributes no event, and the others contribute what they
\* would without it: the call goes on past it and collects nothing for it.
C9_BadComponentDroppedAlone ==
    \A bc \in Positions :
        (~IsSome(SeedAt(bc)) /\ Handled(bc)) =>
            /\ IndexesOf(bc) = {}
            /\ ~(pc = "panic" /\ bc = <<bi, ci>>)

\* The DTSTART or DTEND of the component at bc names a zone outside the table.
UnknownZone(bc) ==
    \E name \in {"DTSTART", "DTEND"} :
        LET p == find(PropsAt(bc), name)
        IN  /\ IsSome(p)
            /\ IsSome(find_param(Unwrap(p), "TZID"))
            /\ Unwrap(find_param(Unwrap(p), "TZID"))
                   \notin {"Australia/Brisbane", "Australia/Sydney"}

\* C10: a DTSTART or DTEND whose TZID names a zone outside the table
\* resolves to empty, and its event is absent from the output, at no offset.
C10_UnknownZoneDropped ==
    \A bc \in Positions :
        UnknownZone(bc) =>
            /\ \E name \in {"DTSTART", "DTEND"} :
                  ~IsSome(datetime(PropsAt(bc), name, offset))
            /\ IndexesOf(bc) = {}
            /\ (Expanding /\ bc = <<bi, ci>>) =>
                  (pc # "take_while" /\ ~IsSome(gen.next))

\* An Ok result holding the events of another component, the input also
\* holding a component in Europe/Paris with a sound weekly rule.
C10_Witness ==
    /\ pc = "Ok"
    /\ Len(evs) >= 1
    /\ \E bc \in Positions :
          /\ UnknownZone(bc)
          /\ ~RuleAt(bc).panic
          /\ IsSome(RuleAt(bc).rule)

\* The zone parameter PropParser::datetime goes by: TZID, else VALUE.
ZoneOf(p) ==
    IF IsSome(find_param(p, "TZID")) THEN find_param(p, "TZID")
    ELSE find_param(p, "VALUE")

\* The value of p is a local date-time YYYYMMDDTHHMMSS naming a real date.
LocalValue(p) ==
    /\ IsSome(p.value)
    /\ Unwrap(p.value).k = "DT"
    /\ ValidDate(Unwrap(p.value))
    /\ ValidTime(Unwrap(p.value))

\* The local date-time the value of p names, at offset off.
LocalAt(p, off) ==
    LET v == Unwrap(p.value)
    IN  ODT(FromCivil(v.y, v.m, v.d), v.h * 3600 + v.mi * 60 + v.s, off)

\* C11: a local date-time with TZID=Australia/Brisbane resolves to that
\* local date-time at +10:00, in every month.
C11_BrisbaneFixed ==
    (pc = "resolved" /\ ZoneOf(dprop) = Some("Australia/Brisbane") /\ LocalValue(dprop)) =>
        dres = Some(LocalAt(dprop, 10 * 3600))

\* 20240615T100000 in Brisbane, resolved.
C11_Witness ==
    /\ pc = "resolved"
    /\ ZoneOf(dprop) = Some("Australia/Brisbane")
    /\ dprop.value = Some(DateTimeText(2024, 6, 15, 10, 0, 0))
    /\ IsSome(dres)

\* C12: a local date-time with TZID=Australia/Sydney gets +10:00 in the
\* months 4 to 9 and +11:00 in the months 1 to 3 and 10 to 12, whatever the
\* day of the month and the time of day.
C12_SydneyByMonth ==
    (pc = "resolved" /\ ZoneOf(dprop) = Some("Australia/Sydney") /\ LocalValue(dprop)) =>
        dres = Some(LocalAt(dprop, IF Unwrap(dprop.value).m \in 4..9
                                   THEN 10 * 3600 ELSE 11 * 3600))

\* The last second of September in Sydney, resolved.
C12_Witness ==
    /\ pc = "resolved"
    /\ ZoneOf(dprop) = Some("Australia/Sydney")
    /\ dprop.value = Some(DateTimeText(2024, 9, 30, 23, 59, 59))
    /\ IsSome(dres)

\* The property of the zone-table example: 20240615T100000 in Sydney.
JuneInSydney ==
    /\ pc = "resolved"
    /\ ZoneOf(dprop) = Some("Australia/Sydney")
    /\ dprop.value = Some(DateTimeText(2024, 6, 15, 10, 0, 0))

\* C13 as stated: 20240615T100000 with TZID=Australia/Sydney resolves to
\* offset +11:00.
C13_JuneDaylight == JuneInSydney => (IsSome(dres) /\ Unwrap(dres).off = 11 * 3600)

\* C13 as amended: 20240615T100000 with TZID=Australia/Sydney resolves to
\* 2024-06-15 10:00 at offset +10:00, June lying inside the April..September
\* window of the standard offset.
C13_JuneStandard ==
    JuneInSydney => dres = Some(ODT(FromCivil(2024, 6, 15), 10 * 3600, 10 * 3600))

\* The example resolved, at a target offset other than +10:00.
C13_Witness == JuneInSydney /\ IsSome(dres) /\ offset # 10 * 3600

\* C17: a property marked VALUE=DATE, without TZID, resolves to midnight of
\* its date at the target offset of the call.
C17_DateAtTargetOffset ==
    (/\ pc = "resolved"
     /\ ~IsSome(find_param(dprop, "TZID"))
     /\ find_param(dprop, "VALUE") = Some("DATE")
     /\ Unwrap(dprop.value).k = "D"
     /\ ValidDate(Unwrap(dprop.value))) =>
        dres = Some(ODT(FromCivil(Unwrap(dprop.value).y, Unwrap(dprop.value).m,
                                  Unwrap(dprop.value).d), 0, offset))

\* A bare date resolved for a call at -05:00.
C17_Witness ==
    /\ pc = "resolved"
    /\ find_param(dprop, "VALUE") = Some("DATE")
    /\ ~IsSome(find_param(dprop, "TZID"))
    /\ dprop.value = Some(DateText(2024, 2, 29))
    /\ offset = 0 - 18000
    /\ IsSome(dres)

\* What parse_ical has returned: Some(calendar) for Ok(evs), None for an
\* error and as long as it has not returned.
Returned == IF pc = "Ok" THEN Some(evs) ELSE None

\* C14: once the parser has handed over a block it failed on, the call has
\* ended with an error and returns no Calendar, whatever was collected from
\* earlier blocks; a Calendar is returned only when every block parsed.
C14_FailedBlockFailsCall ==
    /\ (bi >= 1 /\ ~data[bi].ok) => (pc = "Err" /\ Returned = None)
    /\ pc = "Ok" => AllBlocksOk
    /\ pc = "Err" => (bi >= 1 /\ ~data[bi].ok /\ Returned = None)

\* The call ended with an error after events of an earlier block had been
\* collected.
C14_Witness ==
    /\ pc = "Err"
    /\ Len(evs) >= 1
    /\ \E i \in 1..Len(evs) : origin[i][1] < bi

\* o1 comes before o2 in the unsorted concatenation: block, then component,
\* then generation order.
ConcatBefore(o1, o2) ==
    \/ o1[1] < o2[1]
    \/ (o1[1] = o2[1] /\ o1[2] < o2[2])
    \/ (o1[1] = o2[1] /\ o1[2] = o2[2] /\ o1[3] < o2[3])

\* C15: in the result, two events with equal start stand in the order they
\* had in the unsorted concatenation.
C15_SortStable ==
    pc = "Ok" =>
        \A i \in 1..Len(evs), j \in 1..Len(evs) :
            (i < j /\ Instant(evs[i].start) = Instant(evs[j].start)) =>
                ConcatBefore(origin[i], origin[j])

\* A result in which events of two components start at the same instant,
\* and an event that starts later was collected before the second of them.
C15_Witness ==
    /\ pc = "Ok"
    /\ \E i \in 1..Len(evs), j \in 1..Len(evs) :
          /\ i < j
          /\ Instant(evs[i].start) = Instant(evs[j].start)
          /\ <<origin[i][1], origin[i][2]>> # <<origin[j][1], origin[j][2]>>
          /\ \E k \in 1..Len(evs) :
                /\ ConcatBefore(origin[k], origin[j])
                /\ Instant(evs[k].start) > Instant(evs[j].start)

\* C16: every event collected, pulled or held by the generator has start
\* and end at the target offset of the call.
C16_TargetOffset ==
    /\ \A i \in 1..Len(evs) : evs[i].start.off = offset /\ evs[i].end.off = offset
    /\ (Expanding /\ IsSome(gen.next)) =>
          (Unwrap(gen.next).start.off = offset /\ Unwrap(gen.next).end.off = offset)
    /\ pc = "take_while" =>
          (Unwrap(item).start.off = offset /\ Unwrap(item).end.off = offset)

\* A result for a call at offset 0 holding a later occurrence of a seed
\* given in Australia/Sydney.
C16_Witness ==
    /\ pc = "Ok"
    /\ offset = 0
    /\ \E i \in 1..Len(evs) :
          /\ origin[i][3] >= 1
          /\ ZoneOf(PropsAt(<<origin[i][1], origin[i][2]>>)[1]) = Some("Australia/Sydney")

\* The component being expanded, or the last one that was.
Current == <<bi, ci>>

\* C19: every occurrence the successor function emitted starts strictly
\* before UNTIL; a candidate at or after UNTIL leaves the generator empty,
\* and an empty generator ends the stream: the next step leaves the
\* component with nothing added.
C19_UntilExclusive ==
    /\ [](/\ \A i \in 1..Len(evs) :
                LET r == Unwrap(RuleAt(<<origin[i][1], origin[i][2]>>).rule)
                IN  (origin[i][3] >= 1 /\ IsSome(r.until)) =>
                        Instant(evs[i].start) < Instant(Unwrap(r.until))
          /\ (Expanding /\ IsSome(gen.next) /\ gen.k >= 1
                 /\ IsSome(Unwrap(gen.rrule).until)) =>
                Instant(Unwrap(gen.next).start) < Instant(Unwrap(Unwrap(gen.rrule).until))
          /\ (pc = "take_while" /\ IsSome(gen.rrule)) =>
                LET r == Unwrap(gen.rrule)
                    c == candidate_start(r, Unwrap(item))
                IN  (IsSome(r.until) /\ ~c.panic
                        /\ Instant(Unwrap(c.start)) >= Instant(Unwrap(r.until))) =>
                       ~IsSome(gen.next))
    /\ [][(pc = "successors" /\ ~IsSome(gen.next)) =>
              (pc' = "flat_map" /\ evs' = evs /\ gen' = gen)]_vars

\* The weekly rule on SeedA whose third occurrence would start at UNTIL to
\* the second: the result holds the seed and one successor.
C19_Witness ==
    /\ pc = "Ok"
    /\ data = <<Block(<<Component(SeedA, RRule(RuleUntilExact), Summary("Test"))>>)>>
    /\ limit = HorizonTest
    /\ Len(evs) = 2
    /\ ~IsSome(gen.next)

\* The component at bc has a seed and a rule with COUNT: the count given.
CountGiven(bc) ==
    IF IsSome(SeedAt(bc)) /\ ~RuleAt(bc).panic /\ IsSome(RuleAt(bc).rule)
    THEN Unwrap(RuleAt(bc).rule).count
    ELSE None

\* C20: with COUNT=n the k-th successor call finds the counter at n-k+1 and
\* leaves it at n-k, and the call that finds it at zero returns empty and is
\* the last one; when no UNTIL is given and the horizon rejected nothing, the
\* component has contributed exactly n+1 occurrences once it is drained, the
\* seed alone for COUNT=0.
C20_CountBoundsSuccessors ==
    (ci >= 1 /\ pc \notin {"panic", "Err"} /\ IsSome(CountGiven(Current))) =>
        LET n == Unwrap(CountGiven(Current))
            r == Unwrap(gen.rrule)
        IN  /\ gen.k <= n + 1
            /\ gen.k <= n => r.count = Some(n - gen.k)
            /\ gen.k = n + 1 => (r.count = Some(0) /\ ~IsSome(gen.next))
            /\ Cardinality(IndexesOf(Current)) <= n + 1
            /\ (/\ Drained(Current)
                /\ ~IsSome(r.until)
                /\ Cardinality(IndexesOf(Current)) = gen.k) =>
                   Cardinality(IndexesOf(Current)) = n + 1

\* A result whose last component has COUNT=2 and no UNTIL and contributed
\* three occurrences.
C20_Witness ==
    /\ pc = "Ok"
    /\ ci >= 1
    /\ CountGiven(Current) = Some(2)
    /\ ~IsSome(Unwrap(gen.rrule).until)
    /\ Cardinality(IndexesOf(Current)) = 3
    /\ gen.k = 3

RECURSIVE Stream(_, _, _, _)
\* What successors(next, |ev| rule.next(ev)).take_while(|x| x.start < lim)
\* yields when drained by itself, followed for at most fuel items.
Stream(next, rule, lim, fuel) ==
    IF ~IsSome(next) \/ fuel = 0 THEN <<>>
    ELSE LET succ == IF IsSome(rule) THEN RepeatRule_next(Unwrap(rule), Unwrap(next))
                     ELSE [panic |-> FALSE, rule |-> None, ev |-> None]
         IN  IF succ.panic \/ ~take_while_pred(Unwrap(next), lim) THEN <<>>
             ELSE <<Unwrap(next)>> \o
                  Stream(succ.ev, IF IsSome(rule) THEN Some(succ.rule) ELSE None,
                         lim, fuel - 1)

\* The events of the component at bc parsed alone, in generation order.
Alone(bc) == Stream(SeedAt(bc), RuleAt(bc).rule, limit, MaxEvents)

\* C18: the result holds, for every component, exactly the events of that
\* component parsed alone, each once even where another component yields an
\* equal event, and holds them sorted by start.
C18_ExpansionsIndependent ==
    pc = "Ok" =>
        /\ \A bc \in Positions :
              LET alone == Alone(bc)
              IN  /\ Cardinality(IndexesOf(bc)) = Len(alone)
                  /\ \A i \in IndexesOf(bc) :
                        /\ origin[i][3] + 1 \in 1..Len(alone)
                        /\ evs[i] = alone[origin[i][3] + 1]
                  /\ \A i \in IndexesOf(bc), j \in IndexesOf(bc) :
                        origin[i][3] = origin[j][3] => i = j
        /\ \A i \in 1..(Len(evs) - 1) : Instant(evs[i].start) <= Instant(evs[i + 1].start)

\* A result of two components with rules: the first used up its COUNT=2,
\* the second yielded several occurrences after it.
C18_Witness ==
    /\ pc = "Ok"
    /\ \E b1 \in Positions, b2 \in Positions :
          /\ ConcatBefore(<<b1[1], b1[2], 0>>, <<b2[1], b2[2], 0>>)
          /\ CountGiven(b1) = Some(2)
          /\ Cardinality(IndexesOf(b1)) = 3
          /\ IsSome(RuleAt(b2).rule)
          /\ Cardinality(IndexesOf(b2)) >= 2

\* The UNTIL the rule of the component at bc was parsed with, if it has a
\* seed and a rule.
UntilGiven(bc) ==
    IF IsSome(SeedAt(bc)) /\ ~RuleAt(bc).panic /\ IsSome(RuleAt(bc).rule)
    THEN Unwrap(RuleAt(bc).rule).until
    ELSE None

\* C21: under a rule with both UNTIL and COUNT=n no successor beyond the
\* n-th is emitted and none that starts at or after UNTIL; and a stream the
\* horizon cut nothing from has ended because the count ran out or because
\* the next candidate was not before UNTIL.
C21_BothBoundsApply ==
    (/\ ci >= 1
     /\ pc \notin {"panic", "Err"}
     /\ IsSome(CountGiven(Current))
     /\ IsSome(UntilGiven(Current))) =>
        LET n   == Unwrap(CountGiven(Current))
            u   == Unwrap(UntilGiven(Current))
            idx == IndexesOf(Current)
        IN  /\ \A i \in idx :
                  /\ origin[i][3] <= n
                  /\ origin[i][3] >= 1 => Instant(evs[i].start) < Instant(u)
            /\ (Expanding /\ IsSome(gen.next)) =>
                  /\ gen.k <= n
                  /\ gen.k >= 1 => Instant(Unwrap(gen.next).start) < Instant(u)
            /\ (Drained(Current) /\ gen.k >= 1 /\ Cardinality(idx) = gen.k) =>
                  /\ ~IsSome(gen.next)
                  /\ \/ gen.k = n + 1
                     \/ \E i \in idx :
                           /\ origin[i][3] = gen.k - 1
                           /\ LET c == candidate_start(Unwrap(gen.rrule), evs[i])
                              IN  ~c.panic /\ Instant(Unwrap(c.start)) >= Instant(u)

\* A result whose last component has COUNT and UNTIL and whose stream was
\* ended by UNTIL while the count was not yet used up.
C21_Witness ==
    /\ pc = "Ok"
    /\ ci >= 1
    /\ IsSome(CountGiven(Current))
    /\ IsSome(UntilGiven(Current))
    /\ Unwrap(gen.rrule).count # Some(0)
    /\ Unwrap(gen.rrule).count # CountGiven(Current)
    /\ Cardinality(IndexesOf(Current)) = gen.k
    /\ gen.k >= 1

\* The state right after a call of RepeatRule::next that returned a
\* successor: item is the occurrence the call was given, gen.next the one it
\* returned and gen.rrule the rule it left behind.
Stepped == pc = "take_while" /\ IsSome(gen.rrule) /\ IsSome(gen.next)

Prev == Unwrap(item)

Succ == Unwrap(gen.next)

StepRule == Unwrap(gen.rrule)

PrevDay == Civil(Prev.start.date)

SuccDay == Civil(Succ.start.date)

\* C22: every occurrence the successor function returns starts strictly
\* later than the occurrence it was derived from.
C22_StartsIncrease ==
    Stepped => Instant(Succ.start) > Instant(Prev.start)

\* The calendar month after the month of the civil date c.
MonthAfter(c) == IF c.m = 12 THEN [y |-> c.y + 1, m |-> 1] ELSE [y |-> c.y, m |-> c.m + 1]

MonthOf(c) == [y |-> c.y, m |-> c.m]

\* C23: under a MONTHLY rule every successor lies in the calendar month
\* immediately after the month of the occurrence it was derived from.
C23_NextMonth ==
    (Stepped /\ StepRule.freq = "Monthly") => MonthOf(SuccDay) = MonthAfter(PrevDay)

\* The n-th date of month m of year y that falls on weekday w, counted
\* forward from the 1st, the 1st included.
NthWeekdayForward(y, m, w, n) ==
    LET d1 == FromCivil(y, m, 1)
    IN  d1 + ((w - weekday(d1) + 7) % 7) + 7 * (n - 1)

\* The n-th date of month m of year y that falls on weekday w, counted
\* backward from the last day, the last day included.
NthWeekdayBackward(y, m, w, n) ==
    LET dn == FromCivil(y, m, days_in_year_month(y, m))
    IN  dn - ((weekday(dn) - w + 7) % 7) - 7 * (n - 1)

\* The month the Monthly arm works in: that of the 32nd day after the
\* previous start.
TargetMonth == Civil(Prev.start.date + MonthlyStep)

\* C24: under a MONTHLY rule whose BYDAY selector has ordinal N > 0 the
\* successor is the N-th such weekday of the target month counted from the
\* 1st, the 1st included; with ordinal -N it is the N-th counted back from
\* the last day; and it lies in the target month.
C24_NthWeekdayOfMonth ==
    (/\ Stepped
     /\ StepRule.freq = "Monthly"
     /\ ~IsSome(StepRule.by_month_day)
     /\ IsSome(StepRule.by_day)
     /\ Unwrap(StepRule.by_day)[2] # 0) =>
        LET w == Unwrap(StepRule.by_day)[1]
            n == Unwrap(StepRule.by_day)[2]
            t == TargetMonth
        IN  /\ Succ.start.date = IF n > 0 THEN NthWeekdayForward(t.y, t.m, w, n)
                                 ELSE NthWeekdayBackward(t.y, t.m, w, 0 - n)
            /\ MonthOf(SuccDay) = MonthOf(t)

\* The text of the last BYDAY pair of the rule of the component at bc.
ByDayGiven(bc) ==
    LET t == str(PropsAt(bc), "RRULE")
    IN  IF IsSome(t) /\ \E i \in 1..Len(Unwrap(t)) : Unwrap(t)[i][1] = "BYDAY"
        THEN LET segs == Unwrap(t)
                 last == CHOOSE i \in 1..Len(segs) :
                             /\ segs[i][1] = "BYDAY"
                             /\ \A j \in (i + 1)..Len(segs) : segs[j][1] # "BYDAY"
             IN  Some(segs[last][2])
        ELSE None

\* C25: a BYDAY text made of a two-letter weekday code gives that weekday
\* with ordinal 0; one digit n before the code gives ordinal n; '-' and one
\* digit n before the code give ordinal -n.
C25_ByDayParsed ==
    (ci = 1 /\ IsSome(gen.rrule) /\ IsSome(ByDayGiven(Current))) =>
        LET val == Unwrap(ByDayGiven(Current))
            got == Unwrap(gen.rrule).by_day
        IN  \A w \in 0..6 :
                /\ val = WeekdayCodes[w + 1] => got = Some(<<w, 0>>)
                /\ \A n \in 0..9 :
                      /\ val = <<Digits[n + 1]>> \o WeekdayCodes[w + 1] => got = Some(<<w, n>>)
                      /\ val = <<"-", Digits[n + 1]>> \o WeekdayCodes[w + 1]
                            => got = Some(<<w, 0 - n>>)

\* The interval a Daily or Yearly step uses.
StepInterval == IF IsSome(StepRule.interval) THEN Unwrap(StepRule.interval) ELSE 1

\* The start of the seed of the component being expanded.
SeedStart == Unwrap(SeedAt(Current)).start

\* C26 (as stated): under a YEARLY rule every successor's start is the
\* seed's start with its year advanced by interval years.
C26_YearFromOriginal ==
    (Stepped /\ StepRule.freq = "Yearly") =>
        LET s == replace_year(SeedStart, Civil(SeedStart.date).y + StepInterval)
        IN  Some(Succ.start) = s

\* C26 (amended): under a YEARLY rule every successor's start is the previous
\* occurrence's start with its year advanced by interval years, month, day,
\* time of day and offset kept; the k-th successor is thus the seed's start
\* k * interval years later.
C26_YearFromPrevious ==
    (Stepped /\ StepRule.freq = "Yearly") =>
        /\ Some(Succ.start) = replace_year(Prev.start, PrevDay.y + StepInterval)
        /\ SuccDay.m = PrevDay.m /\ SuccDay.d = PrevDay.d
        /\ Succ.start.tod = Prev.start.tod /\ Succ.start.off = Prev.start.off
        /\ gen.k < MaxEvents =>
              Some(Succ.start) = replace_year(SeedStart,
                                     Civil(SeedStart.date).y + gen.k * StepInterval)

\* The second successor of a yearly rule: two intervals after the seed.
C26_Witness ==
    /\ Stepped
    /\ StepRule.freq = "Yearly"
    /\ gen.k = 2
    /\ StepInterval > 0
    /\ SuccDay.y = Civil(SeedStart.date).y + 2 * StepInterval

\* The Monthly arm took its last branch: neither selector is set.
MonthlyFallback ==
    /\ Stepped
    /\ StepRule.freq = "Monthly"
    /\ ~IsSome(StepRule.by_month_day)
    /\ ~IsSome(StepRule.by_day)

\* C27: under a MONTHLY rule with neither BYMONTHDAY nor BYDAY every
\* successor, after any number of steps, has the day-of-month of the seed's
\* start, whatever the length of its month.
C27_SeedDayKept ==
    MonthlyFallback => SuccDay.d = Civil(SeedStart.date).d

\* The second successor of a seed on the 31st: it lies on the 31st again.
C27_Witness ==
    /\ MonthlyFallback
    /\ gen.k = 2
    /\ Civil(SeedStart.date).d = 31
    /\ SuccDay.d = 31

\* RepeatRule::next is being applied, or has just been applied, to an
\* occurrence under a MONTHLY rule with a BYMONTHDAY selector: gen.next is the
\* occurrence handed in when the call panicked and the one returned otherwise.
MonthlyByMonthDay ==
    /\ IsSome(gen.rrule)
    /\ IsSome(gen.next)
    /\ pc \in {"take_while", "panic"}
    /\ StepRule.freq = "Monthly"
    /\ IsSome(StepRule.by_month_day)

\* C28: under a MONTHLY rule with BYMONTHDAY=d, for every d the parser
\* accepts, the step yields a successor (it does not abort), and the
\* successor lies in the target month on day min(d, days of that month).
C28_MonthDayClamped ==
    MonthlyByMonthDay =>
        /\ pc # "panic"
        /\ LET d   == Unwrap(StepRule.by_month_day)
               t   == TargetMonth
               dim == days_in_year_month(t.y, t.m)
           IN  /\ SuccDay.d = IF d < dim THEN d ELSE dim
               /\ MonthOf(SuccDay) = MonthOf(t)

\* C29: under a DAILY rule the successor's start is the previous start
\* moved forward by interval calendar days (1 without INTERVAL), time of day
\* and offset unchanged.
C29_DailyStep ==
    (Stepped /\ StepRule.freq = "Daily") =>
        Succ.start = [date |-> Prev.start.date + StepInterval,
                      tod  |-> Prev.start.tod,
                      off  |-> Prev.start.off]

\* A daily step under INTERVAL=2 that moved two days on.
C29_Witness ==
    /\ Stepped
    /\ StepRule.freq = "Daily"
    /\ StepRule.interval = Some(2)
    /\ Succ.start.date = Prev.start.date + 2

\* C30: under a WEEKLY rule the successor's date is the first date after the
\* previous start's date that falls on the BYDAY weekday, and without a
\* selector the date 7 days after it, whatever INTERVAL says; time of day and
\* offset are those of the previous start.
C30_WeeklyStep ==
    (Stepped /\ StepRule.freq = "Weekly") =>
        /\ IF IsSome(StepRule.by_day)
           THEN /\ Succ.start.date \in (Prev.start.date + 1)..(Prev.start.date + 7)
                /\ weekday(Succ.start.date) = Unwrap(StepRule.by_day)[1]
           ELSE Succ.start.date = Prev.start.date + 7
        /\ Succ.start.tod = Prev.start.tod
        /\ Succ.start.off = Prev.start.off

\* A weekly step under INTERVAL=2 without a selector: one week on.
C30_Witness ==
    /\ Stepped
    /\ StepRule.freq = "Weekly"
    /\ StepRule.interval = Some(2)
    /\ ~IsSome(StepRule.by_day)
    /\ Succ.start.date = Prev.start.date + 7

\* The orders of the pairs of the rule text t.
Reorderings(t) ==
    { [i \in 1..Len(t) |-> t[f[i]]] :
        f \in { g \in [1..Len(t) -> 1..Len(t)] :
                  \A i, j \in 1..Len(t) : i # j => g[i] # g[j] } }

KnownKeys == {"FREQ", "UNTIL", "BYDAY", "BYMONTHDAY", "INTERVAL", "COUNT"}

RECURSIVE KnownPairs(_)
\* The rule text t without the pairs whose key the parser does not know.
KnownPairs(t) ==
    IF t = <<>> THEN <<>>
    ELSE IF Len(Head(t)) = 2 /\ Head(t)[1] \in KnownKeys
    THEN <<Head(t)>> \o KnownPairs(Tail(t))
    ELSE KnownPairs(Tail(t))

\* Some pair of t is FREQ with one of the four frequencies.
HasFreq(t) ==
    \E i \in 1..Len(t) :
        /\ Len(t[i]) = 2
        /\ t[i][1] = "FREQ"
        /\ t[i][2] \in {"DAILY", "WEEKLY", "MONTHLY", "YEARLY"}

\* make_event has just parsed the rule of the only component of the call.
RuleParsed ==
    /\ ci = 1
    /\ gen.k = 0
    /\ \/ pc = "successors"
       \/ pc = "panic" /\ ~IsSome(gen.next)
    /\ IsSome(str(PropsAt(Current), "RRULE"))

\* What RepeatRule::parse and to_offset made of the rule text: the rule the
\* generator was built with, or no return at all.
ParseOutcome == [panic |-> pc = "panic", rule |-> gen.rrule]

\* C31: the rule a text parses to is the rule every reordering of its pairs
\* parses to (keys being distinct) and the rule the text without its unknown
\* keys parses to; and a text without a FREQ pair naming one of the four
\* frequencies parses to empty.
C31_OrderIndependent ==
    RuleParsed =>
        LET t == Unwrap(str(PropsAt(Current), "RRULE"))
            same(u) == rrule(<<Property("RRULE", Some(u), NoParams)>>, offset) = ParseOutcome
        IN  /\ DistinctKeys(t) => \A u \in Reorderings(t) : same(u)
            /\ same(KnownPairs(t))
            /\ ~HasFreq(t) => ParseOutcome = [panic |-> FALSE, rule |-> None]

\* The seed of the component at bc is in the list, as the first occurrence
\* of that component.
SeedEmitted(bc) ==
    \E i \in IndexesOf(bc) : origin[i][3] = 0 /\ evs[i] = Unwrap(SeedAt(bc))

\* C32: once the call is through with a component whose SUMMARY, DTSTART and
\* DTEND resolve and whose start is before the horizon, the seed is in the
\* list, whatever the recurrence rule of the component is.
C32_SeedEmitted ==
    \A bc \in Positions :
        (/\ Handled(bc)
         /\ Drained(bc) \/ pc = "panic"
         /\ IsSome(SeedAt(bc))
         /\ Instant(Unwrap(SeedAt(bc)).start) < Instant(limit)) => SeedEmitted(bc)

\* C33: every occurrence in the list, and the one the generator holds,
\* carries the summary of the seed of its component; and a step of the
\* expansion leaves every occurrence already in the list as it was.
C33_DerivedNotMutated ==
    /\ [](/\ \A i \in 1..Len(evs) :
                evs[i].summary = Unwrap(SeedAt(<<origin[i][1], origin[i][2]>>)).summary
          /\ (Expanding /\ IsSome(gen.next)) =>
                Unwrap(gen.next).summary = Unwrap(SeedAt(Current)).summary)
    /\ [][Expanding =>
              /\ Len(evs') >= Len(evs)
              /\ \A i \in 1..Len(evs) : evs'[i] = evs[i]]_vars

\* A result with successors of two components whose summaries differ.
C33_Witness ==
    /\ pc = "Ok"
    /\ \E i, j \in 1..Len(evs) :
          /\ origin[i][3] >= 1
          /\ origin[j][3] >= 1
          /\ evs[i].summary # evs[j].summary

\* All events of the calendars are in one offset and none ends before it
\* starts.
OneOffsetOrdered ==
    \A i, j \in 1..Len(flatten(cals)) :
        LET a == flatten(cals)[i]
            b == flatten(cals)[j]
        IN  /\ a.start.off = b.start.off
            /\ a.end.off = a.start.off
            /\ Instant(a.start) <= Instant(a.end)

\* The events of the calendars that cover day d, in start order.
CoveringInOrder(d) ==
    LET Covering(e) == covers(e, d)
    IN  sort_by_start(SelectSeq(flatten(cals), Covering))

\* C34: with all events in one offset and start <= end, the lines of every
\* cell Month::render draws are the events of the merged calendars that
\* cover the cell's day, in start order.
C34_CellIsNaiveFilter ==
    (IsSome(cell) /\ OneOffsetOrdered) =>
        Unwrap(cell).evs = CoveringInOrder(Unwrap(cell).day)

\* A cell showing an event that began before the grid together with one that
\* begins that day, after an earlier event had been dropped from the slice.
C34_Witness ==
    /\ IsSome(cell)
    /\ OneOffsetOrdered
    /\ Len(Unwrap(cell).evs) = 2
    /\ Unwrap(cell).evs[1].start.date < Unwrap(cell).day
    /\ Unwrap(cell).evs[2].start.date = Unwrap(cell).day
    /\ Len(month_slice) < Len(month_evs)

====
